---- MODULE Spec2Model ----
(***************************************************************************)
(* Voice-driven revenue / expense ledger: Dashboard, the lenient           *)
(* VoiceRecognitionService, the lenient RevenueTracker, ExpenseTracker and *)
(* the localStorage ledger store; and the build with the strict            *)
(* RevenueTracker and the strict VoiceRecognitionService.                  *)
(*                                                                         *)
(* A transcript is a sequence of lower-case words.  A React component is   *)
(* modelled by its state record; an event handler is followed, inside the  *)
(* same action, by the renders and effect runs it causes, until no         *)
(* dependency of an effect changes any more.  State updates made in one    *)
(* handler or effect run are batched into one render.  Time-outs all have  *)
(* the same delay (3000 ms), so they fire in the order they were started.  *)
(***************************************************************************)
EXTENDS Integers, Sequences, FiniteSets, TLC

----------------------------------------------------------------------------
(* Bounds of the model *)

MaxDeliver == 3      \* transcripts delivered in a run without manual input
MaxCoreDeliver == 2  \* transcripts delivered in a run with manual input
MaxCommits == 2      \* entries appended to the store in one run
MaxTimers  == 4      \* time-outs outstanding at one time
MaxNow     == 1      \* last reading of the clock Date.now()
TicksPerDay == 2     \* clock readings per calendar day
MaxStrictDeliver == 2 \* transcripts delivered in a run of the strict build
MaxServiceDeliver == 2 \* transcripts delivered in a run of the service
MaxPad == 1          \* white space before and after a spoken number
MaxGap == 2          \* white space between the two words of a number
MaxCategoryWords == 3 \* words of a category text
MaxStored == 2       \* entries of a kind saved in a run of the store
MaxSpoken == 3       \* speak() calls in a run of the speech queue
MaxErrors == 2       \* recognition errors in a run of the sessions
MaxHeard == 2        \* transcripts delivered in a run of the sessions

----------------------------------------------------------------------------
(* JavaScript values *)

Null      == <<>>                       \* null: an empty option
Some(v)   == <<v>>
Undefined == <<"undefined">>            \* the note of an entry without note
NaN       == [nan |-> TRUE,  val |-> 0]
Num(n)    == [nan |-> FALSE, val |-> n]
isNaN(x)  == x.nan

\* numerals of the vocabulary and their values: parseFloat on a token
NumeralValue ==
  [w \in {"0", "5", "10", "15", "20", "25"} |->
     CASE w = "0" -> 0 [] w = "5" -> 5 [] w = "10" -> 10 [] w = "15" -> 15
       [] w = "20" -> 20 [] w = "25" -> 25]

IsNumeral(w) == w \in DOMAIN NumeralValue

parseFloat(s) == IF IsNumeral(s) THEN Num(NumeralValue[s]) ELSE NaN

\* Number.prototype.toString on the amounts of the vocabulary
toString(n) == CHOOSE s \in DOMAIN NumeralValue : NumeralValue[s] = n

\* what (\w+) captures at the start of a token: its leading run of letters,
\* digits and underscores
wordChars(w) == IF w = "what's" THEN "what" ELSE w

----------------------------------------------------------------------------
(* wordToNumber *)

wordMap ==
  [w \in {"zero", "one", "two", "three", "four", "five", "six", "seven",
          "eight", "nine", "ten", "eleven", "twelve", "thirteen", "fourteen",
          "fifteen", "sixteen", "seventeen", "eighteen", "nineteen",
          "twenty", "thirty", "forty", "fifty", "sixty", "seventy",
          "eighty", "ninety"} |->
     CASE w = "zero" -> 0 [] w = "one" -> 1 [] w = "two" -> 2
       [] w = "three" -> 3 [] w = "four" -> 4 [] w = "five" -> 5
       [] w = "six" -> 6 [] w = "seven" -> 7 [] w = "eight" -> 8
       [] w = "nine" -> 9 [] w = "ten" -> 10 [] w = "eleven" -> 11
       [] w = "twelve" -> 12 [] w = "thirteen" -> 13 [] w = "fourteen" -> 14
       [] w = "fifteen" -> 15 [] w = "sixteen" -> 16 [] w = "seventeen" -> 17
       [] w = "eighteen" -> 18 [] w = "nineteen" -> 19 [] w = "twenty" -> 20
       [] w = "thirty" -> 30 [] w = "forty" -> 40 [] w = "fifty" -> 50
       [] w = "sixty" -> 60 [] w = "seventy" -> 70 [] w = "eighty" -> 80
       [] w = "ninety" -> 90]

\* word: the words of the captured text (already lower-case, trimmed)
wordToNumber(word) ==
  IF Len(word) = 1 /\ word[1] \in DOMAIN wordMap
    THEN Num(wordMap[word[1]])
  ELSE IF /\ Len(word) = 2
          /\ word[1] \in DOMAIN wordMap
          /\ word[2] \in DOMAIN wordMap
          /\ wordMap[word[1]] % 10 = 0
    THEN Num(wordMap[word[1]] + wordMap[word[2]])
  ELSE NaN

\* "parseFloat first, word lookup on failure" of the amount capture
parseAmount(tok) ==
  IF ~isNaN(parseFloat(tok)) THEN parseFloat(tok) ELSE wordToNumber(<<tok>>)

----------------------------------------------------------------------------
(* Regular expressions on word sequences.  A match result is Null or the   *)
(* sequence of its capture groups.                                         *)

SubSeqFrom(s, i) == SubSeq(s, i, Len(s))

HasPrefixAt(cmd, i, pre) ==
  /\ i + Len(pre) - 1 <= Len(cmd)
  /\ \A k \in 1..Len(pre) : cmd[i + k - 1] = pre[k]

\* leftmost position of pre in cmd at which ok(position after pre) holds
FirstAt(cmd, pre, ok(_)) ==
  LET hits == {i \in 1..Len(cmd) : HasPrefixAt(cmd, i, pre) /\ ok(i + Len(pre))}
  IN  IF hits = {} THEN 0 ELSE CHOOSE i \in hits : \A j \in hits : i <= j

\* /<verb> revenue (\d+(?:\.\d+)?)(?: dollars?)?/i
matchRevenueDigits(cmd, verb) ==
  LET ok(j) == j <= Len(cmd) /\ IsNumeral(cmd[j])
      i == FirstAt(cmd, <<verb, "revenue">>, ok)
  IN  IF i = 0 THEN Null ELSE <<cmd[i + 2]>>

\* /<verb> revenue (\w+)(?: dollars?)?/i
matchRevenueWord(cmd, verb) ==
  LET ok(j) == j <= Len(cmd)
      i == FirstAt(cmd, <<verb, "revenue">>, ok)
  IN  IF i = 0 THEN Null ELSE <<wordChars(cmd[i + 2])>>

\* the position after the amount token at which " for (.+)" matches, or 0
ForTail(cmd, j) ==
  LET k == IF j + 1 <= Len(cmd) /\ cmd[j + 1] \in {"dollar", "dollars"}
             THEN j + 2 ELSE j + 1
  IN  IF k + 1 <= Len(cmd) /\ cmd[k] = "for" THEN k + 1 ELSE 0

\* /<verb> expense (\d+(?:\.\d+)?)(?: dollars?)? for (.+)/i
matchExpenseDigits(cmd, verb) ==
  LET ok(j) == j <= Len(cmd) /\ IsNumeral(cmd[j]) /\ ForTail(cmd, j) # 0
      i == FirstAt(cmd, <<verb, "expense">>, ok)
  IN  IF i = 0 THEN Null
      ELSE <<cmd[i + 2], SubSeqFrom(cmd, ForTail(cmd, i + 2))>>

\* /<verb> expense (\w+)(?: dollars?)? for (.+)/i
matchExpenseWord(cmd, verb) ==
  LET ok(j) == /\ j <= Len(cmd) /\ wordChars(cmd[j]) = cmd[j]
               /\ ForTail(cmd, j) # 0
      i == FirstAt(cmd, <<verb, "expense">>, ok)
  IN  IF i = 0 THEN Null
      ELSE <<cmd[i + 2], SubSeqFrom(cmd, ForTail(cmd, i + 2))>>

\* /add note (.+)/i
matchNote(cmd) ==
  LET ok(j) == j <= Len(cmd)
      i == FirstAt(cmd, <<"add", "note">>, ok)
  IN  IF i = 0 THEN Null ELSE <<SubSeqFrom(cmd, i + 2)>>

\* a || b || c || d on match results
FirstMatch(ms) ==
  LET hits == {i \in 1..Len(ms) : ms[i] # Null}
  IN  IF hits = {} THEN Null
      ELSE ms[CHOOSE i \in hits : \A j \in hits : i <= j]

revenueMatch(cmd) ==
  FirstMatch(<<matchRevenueDigits(cmd, "record"), matchRevenueDigits(cmd, "add"),
               matchRevenueWord(cmd, "record"), matchRevenueWord(cmd, "add")>>)

expenseMatch(cmd) ==
  FirstMatch(<<matchExpenseDigits(cmd, "record"), matchExpenseDigits(cmd, "add"),
               matchExpenseWord(cmd, "record"), matchExpenseWord(cmd, "add")>>)

\* String.prototype.includes of a needle of one or more words in a text:
\* the needle occurs as consecutive words, the first and last of which may
\* be embedded in longer words
Embeds ==
  {<<"gas", "gas">>, <<"snacks", "snack">>, <<"snack", "snack">>,
   <<"tolls", "toll">>, <<"toll", "toll">>, <<"maintenance", "maintenance">>,
   <<"car", "car">>, <<"wash", "wash">>, <<"profit", "profit">>,
   <<"total", "total">>, <<"revenue", "revenue">>, <<"expenses", "expenses">>,
   <<"vegas", "gas">>}

includes(text, needle) ==
  \E i \in 1..Len(text) :
    /\ i + Len(needle) - 1 <= Len(text)
    /\ \A k \in 1..Len(needle) :
         IF k = 1 \/ k = Len(needle)
           THEN <<text[i + k - 1], needle[k]>> \in Embeds
           ELSE text[i + k - 1] = needle[k]

\* the category chain with the test for toll first
categoryOfTollFirst(categoryText) ==
  IF includes(categoryText, <<"toll">>) THEN "Tolls"
  ELSE IF includes(categoryText, <<"gas">>) THEN "Gas"
  ELSE IF includes(categoryText, <<"maintenance">>) THEN "Maintenance"
  ELSE IF includes(categoryText, <<"car", "wash">>) THEN "Car Wash"
  ELSE IF includes(categoryText, <<"snack">>) THEN "Snacks"
  ELSE "Other"

\* the category chain of if / else if on categoryText
categoryOf(categoryText) ==
  IF includes(categoryText, <<"gas">>) THEN "Gas"
  ELSE IF includes(categoryText, <<"maintenance">>) THEN "Maintenance"
  ELSE IF includes(categoryText, <<"car", "wash">>) THEN "Car Wash"
  ELSE IF includes(categoryText, <<"snack">>) THEN "Snacks"
  ELSE IF includes(categoryText, <<"toll">>) THEN "Tolls"
  ELSE "Other"

\* /how much (have i|did i) <verb>/i
matchHowMuch(cmd, verb) ==
  \E i \in 1..Len(cmd) :
    \/ HasPrefixAt(cmd, i, <<"how", "much", "have", "i", verb>>)
    \/ HasPrefixAt(cmd, i, <<"how", "much", "did", "i", verb>>)

----------------------------------------------------------------------------
(* The transcripts, form inputs and tabs of the model *)

RecordRevenue10   == <<"record", "revenue", "10">>
RecordRevenue5    == <<"record", "revenue", "5">>
RecordRevenueZero == <<"record", "revenue", "zero">>
RecordExpense15Gas   == <<"record", "expense", "15", "for", "gas">>
RecordExpense10Gas   == <<"record", "expense", "10", "for", "gas">>
RecordExpense5Snacks == <<"record", "expense", "5", "for", "snacks">>
AddNoteParkingFee == <<"add", "note", "parking", "fee">>
ProfitQuery   == <<"what's", "my", "profit", "so", "far">>
RevenueQuery  == <<"what's", "my", "total", "revenue", "today">>
ExpensesQuery == <<"how", "much", "did", "i", "spend">>

Transcripts ==
  {RecordRevenue10, RecordRevenue5, RecordRevenueZero,
   RecordExpense15Gas, RecordExpense10Gas, RecordExpense5Snacks,
   AddNoteParkingFee, ProfitQuery, RevenueQuery, ExpensesQuery}

\* the transcripts of the runs with manual input
CoreTranscripts ==
  {RecordRevenue10, RecordRevenueZero, RecordExpense5Snacks,
   AddNoteParkingFee, ProfitQuery}

Tabs == {"summary", "revenue", "expenses"}

FormAmounts == {"0", "5"}            \* typed into the amount field
FormNotes   == {<<"tip">>}           \* typed into the note field
FormCategories == {"Snacks"}         \* selected in the category field

----------------------------------------------------------------------------
(* State *)

VARIABLES
  activeTab,      \* Dashboard: the tab shown; its tracker is the mounted one
  lastCommand,    \* Dashboard: the last transcript, "" is <<>>
  rev,            \* RevenueTracker state, initial while not mounted
  exp,            \* ExpenseTracker state, initial while not mounted
  timers,         \* the time-outs started and not yet fired or cleared
  revenueStore,   \* localStorage lyft_revenue
  expenseStore,   \* localStorage lyft_expenses
  now,            \* Date.now()
  dashboard,      \* Dashboard: today's revenue and expenses as last loaded
  said,           \* the speak() calls of the last step, in order
  delivered,      \* history: the transcripts delivered so far
  commitLog,      \* history: the entries appended so far, with their path
  recognition,    \* the SpeechRecognition object: the phase of its session
  isListening,    \* isListening of the service and of Dashboard
  errors,         \* the messages handed to handlers.onError, in order
  synthesis,      \* window.speechSynthesis: its utterances, the spoken first
  applied         \* the operations applied one by one in the runs of a function

vars == <<activeTab, lastCommand, rev, exp, timers, revenueStore,
          expenseStore, now, dashboard, said, delivered, commitLog,
          recognition, isListening, errors, synthesis, applied>>

\* the variables of the ledger: the tabs, the trackers, the store, the clock
ledgerVars == <<activeTab, lastCommand, rev, exp, timers, revenueStore,
                expenseStore, now, dashboard, said, delivered, commitLog>>

\* the session, the speech queue and the applications of pure functions; the
\* runs of the ledger leave them as they are
voiceVars == <<recognition, isListening, errors, synthesis, applied>>

\* useState initial values of RevenueTracker
RevInitial ==
  [amount |-> "", note |-> <<>>, recentRevenue |-> <<>>,
   pendingAmount |-> Null]

\* useState initial values of ExpenseTracker
ExpInitial ==
  [amount |-> "", category |-> "Gas", note |-> <<>>,
   recentExpenses |-> <<>>, pendingExpense |-> Null,
   lastProcessedCommand |-> <<>>, processingLock |-> FALSE]

\* the voiceService the handlers object of Dashboard closes over: the value
\* of the first render, in which the handlers are created once
HandlersVoiceService == Null

\* the voiceService prop the trackers receive: the state set after creation
PropVoiceService == Some("service")

Msg(text, amount, category) ==
  [text |-> text, amount |-> amount, category |-> category]

\* a time-out: what its callback closes over.  live: the component instance
\* that started it is still mounted; src: the delivery it was started for
Timer(kind, pending, amountValue, category, recent, src) ==
  [kind |-> kind, pending |-> pending, amountValue |-> amountValue,
   category |-> category, recent |-> recent, live |-> TRUE, src |-> src]

\* the part of the state the handlers of the trackers work on
World ==
  [rev |-> rev, exp |-> exp, timers |-> timers,
   revenueStore |-> revenueStore, expenseStore |-> expenseStore,
   dashboard |-> dashboard, said |-> <<>>, commitLog |-> commitLog]

\* what a handler reads from its surroundings
Ctx(cmd, at) == [cmd |-> cmd, now |-> now, at |-> at]

----------------------------------------------------------------------------
(* Store (utils/storage.ts) *)

\* JSON.stringify of an entry: a property whose value is undefined is left out
JSONstringify(e) ==
  IF e.note = Undefined THEN [k \in DOMAIN e \ {"note"} |-> e[k]] ELSE e

\* JSON.parse of the text of an entry, as its properties are read: a property
\* that is not there reads as undefined
JSONparse(j) ==
  IF "note" \in DOMAIN j THEN j
  ELSE [k \in DOMAIN j \cup {"note"} |->
          IF k = "note" THEN Undefined ELSE j[k]]

\* localStorage.setItem(key, JSON.stringify(list)), read back by getItem and
\* JSON.parse
setItem(list) == [i \in DOMAIN list |-> JSONparse(JSONstringify(list[i]))]

\* getRevenue / getExpenses: the list last written under the key
getRevenue(store) == store

getExpenses(store) == store

\* a store that puts the new entry first
saveRevenueFirst(store, revenue) == setItem(<<revenue>> \o getRevenue(store))

saveRevenue(store, revenue) == setItem(Append(getRevenue(store), revenue))

saveExpense(store, expense) == setItem(Append(getExpenses(store), expense))

\* stable sort by timestamp, newest first
InsertDesc(sorted, x) ==
  LET k == Cardinality({i \in 1..Len(sorted) :
                          sorted[i].timestamp >= x.timestamp})
  IN  SubSeq(sorted, 1, k) \o <<x>> \o SubSeq(sorted, k + 1, Len(sorted))

RECURSIVE SortDesc(_)
SortDesc(s) ==
  IF s = <<>> THEN <<>>
  ELSE InsertDesc(SortDesc(SubSeq(s, 1, Len(s) - 1)), s[Len(s)])

Slice5(s) == SubSeq(s, 1, IF Len(s) < 5 THEN Len(s) ELSE 5)

\* the "load recent entries" effect of a tracker
loadRecent(store) == Slice5(SortDesc(store))

\* getDataForDateRange: both ends of the range are included
getDataForDateRange(w, startTimestamp, endTimestamp) ==
  LET InRange(e) == /\ e.timestamp >= startTimestamp
                    /\ e.timestamp <= endTimestamp
  IN  [revenue  |-> SelectSeq(w.revenueStore, InRange),
       expenses |-> SelectSeq(w.expenseStore, InRange)]

\* getTodayData: from today 00:00 to tomorrow 00:00
getTodayData(w, clock) ==
  LET today    == clock - (clock % TicksPerDay)
      tomorrow == today + TicksPerDay
  IN  getDataForDateRange(w, today, tomorrow)

RECURSIVE SumAmounts(_)
SumAmounts(s) ==
  IF s = <<>> THEN 0 ELSE s[1].amount + SumAmounts(Tail(s))

----------------------------------------------------------------------------
(* speak *)

speak(w, msg) == [w EXCEPT !.said = Append(@, msg)]


\* Dashboard.handleDataChange, the onDataChange prop of the trackers
handleDataChange(w, c) == [w EXCEPT !.dashboard = getTodayData(w, c.now)]

----------------------------------------------------------------------------
(* Lenient RevenueTracker *)

\* recent, live: the recentRevenue the calling closure holds, and whether
\* its component instance is still mounted (state updates reach it)
handleSaveRevenue(w, c, recent, live, amountValue, noteValue, via) ==
  LET newRevenue ==
        [id |-> c.now, amount |-> amountValue, timestamp |-> c.now,
         note |-> IF noteValue = <<>> THEN Undefined ELSE noteValue]
      w1 == [w EXCEPT
               !.revenueStore = saveRevenue(@, newRevenue),
               !.commitLog = Append(@, [kind |-> "revenue", via |-> via,
                                        at |-> c.at, entry |-> newRevenue]),
               !.rev = IF live
                         THEN [@ EXCEPT
                                 !.recentRevenue = Slice5(<<newRevenue>> \o recent),
                                 !.amount = "",
                                 !.note = <<>>]
                         ELSE @]
      w2 == handleDataChange(w1, c)
  IN  IF PropVoiceService # Null
        THEN speak(w2, Msg("Recorded ${formatCurrency(amountValue)} revenue.",
                           amountValue, ""))
        ELSE w2

\* a weaker test of the parsed amount: any number passes
revenueAmountIsNumber(amountValue) == ~isNaN(amountValue)

\* the test a parsed amount must pass to be staged
revenueAmountValid(amountValue) ==
  ~isNaN(amountValue) /\ amountValue.val > 0

\* one run of the voice-command effect; cl: the state of the render that
\* created it (what its closures see)
revenueEffect(c, cl, w) ==
  IF c.cmd = <<>> THEN w
  ELSE
    LET m == revenueMatch(c.cmd)
        amountValue == parseAmount(m[1])
        staged == m # Null /\ revenueAmountValid(amountValue)
        w1 == IF staged
                THEN [w EXCEPT
                        !.rev.amount = toString(amountValue.val),
                        !.rev.pendingAmount = Some(amountValue.val),
                        !.timers = Append(@, Timer("revenueSave",
                                      cl.pendingAmount, amountValue.val, "",
                                      cl.recentRevenue, c.at))]
                ELSE w
        noteMatch == matchNote(c.cmd)
    IN  IF cl.pendingAmount # Null /\ noteMatch # Null
          THEN LET w2 == [w1 EXCEPT !.rev.note = noteMatch[1]]
                   w3 == handleSaveRevenue(w2, c, cl.recentRevenue, TRUE,
                                           cl.pendingAmount[1], noteMatch[1],
                                           "note")
               IN  [w3 EXCEPT !.rev.pendingAmount = Null]
          ELSE w1

\* the dependency array of the voice-command effect
revenueDeps(cmd, st) == <<cmd, st.pendingAmount>>

\* renders of the mounted tracker: the effect runs again while a dependency
\* differs from the one of the previous render
RECURSIVE revenueRender(_, _, _)
revenueRender(c, w, prevDeps) ==
  IF revenueDeps(c.cmd, w.rev) = prevDeps THEN w
  ELSE revenueRender(c, revenueEffect(c, w.rev, w), revenueDeps(c.cmd, w.rev))

\* mount: both effects run after the first render, whose state is initial
mountRevenue(c, w) ==
  LET w0 == [w EXCEPT !.rev = [RevInitial EXCEPT
                                 !.recentRevenue = loadRecent(w.revenueStore)]]
  IN  revenueRender(c, revenueEffect(c, RevInitial, w0),
                    revenueDeps(c.cmd, RevInitial))

\* unmount: the effect has no cleanup, its time-outs stay started
unmountRevenue(w) ==
  [w EXCEPT
     !.rev = RevInitial,
     !.timers = [i \in DOMAIN @ |->
                   IF @[i].kind = "revenueSave"
                     THEN [@[i] EXCEPT !.live = FALSE] ELSE @[i]]]

\* the callback of setTimeout in the effect
revenueTimeout(c, t, w) ==
  IF t.pending = Some(t.amountValue)
    THEN LET w1 == handleSaveRevenue(w, c, t.recent, t.live, t.amountValue,
                                     <<>>, "timer")
         IN  IF t.live
               THEN revenueRender(c, [w1 EXCEPT !.rev.pendingAmount = Null],
                                  revenueDeps(c.cmd, w.rev))
               ELSE w1
    ELSE w

\* handleSubmit
revenueSubmit(c, w) ==
  LET amountValue == parseFloat(w.rev.amount)
  IN  IF isNaN(amountValue) \/ amountValue.val <= 0
        THEN IF PropVoiceService # Null
               THEN speak(w, Msg("Please enter a valid amount.", 0, ""))
               ELSE w
        ELSE handleSaveRevenue(w, c, w.rev.recentRevenue, TRUE,
                               amountValue.val, w.rev.note, "form")

----------------------------------------------------------------------------
(* ExpenseTracker *)

handleSaveExpense(w, c, recent, live, amountValue, categoryValue, noteValue, via) ==
  LET newExpense ==
        [id |-> c.now, amount |-> amountValue, category |-> categoryValue,
         timestamp |-> c.now,
         note |-> IF noteValue = <<>> THEN Undefined ELSE noteValue]
      w1 == [w EXCEPT
               !.expenseStore = saveExpense(@, newExpense),
               !.commitLog = Append(@, [kind |-> "expense", via |-> via,
                                        at |-> c.at, entry |-> newExpense]),
               !.exp = IF live
                         THEN [@ EXCEPT
                                 !.recentExpenses = Slice5(<<newExpense>> \o recent),
                                 !.amount = "",
                                 !.category = "Gas",
                                 !.note = <<>>]
                         ELSE @]
      w2 == handleDataChange(w1, c)
  IN  IF PropVoiceService # Null
        THEN speak(w2, Msg("Recorded ${formatCurrency(amountValue)} expense for ${categoryValue}.",
                           amountValue, categoryValue))
        ELSE w2

\* the guard at the top of the voice-command effect
expenseGuard(cmd, cl) ==
  cmd = <<>> \/ cmd = cl.lastProcessedCommand \/ cl.processingLock

\* one run of the voice-command effect; cl: the state of the render that
\* created it.  Every time-out it starts is cleared by the cleanup it returns.
expenseEffect(c, cl, w) ==
  IF expenseGuard(c.cmd, cl) THEN w
  ELSE
    LET w1 == [w EXCEPT
                 !.exp.processingLock = TRUE,
                 !.exp.lastProcessedCommand = c.cmd,
                 !.timers = Append(@, Timer("lockRelease", Null, 0, "", <<>>,
                                            c.at))]
        m == expenseMatch(c.cmd)
        amountValue == parseAmount(m[1])
        staged == m # Null /\ ~isNaN(amountValue) /\ amountValue.val > 0
        expenseCategory == categoryOf(m[2])
        noteMatch == matchNote(c.cmd)
    IN  IF staged
          THEN [w1 EXCEPT
                  !.exp.amount = toString(amountValue.val),
                  !.exp.category = expenseCategory,
                  !.exp.pendingExpense =
                     Some([amount |-> amountValue.val,
                           category |-> expenseCategory]),
                  !.timers = Append(@, Timer("expenseSave", cl.pendingExpense,
                                amountValue.val, expenseCategory,
                                cl.recentExpenses, c.at))]
        ELSE IF cl.pendingExpense # Null /\ noteMatch # Null
          THEN LET w2 == [w1 EXCEPT !.exp.note = noteMatch[1]]
                   w3 == handleSaveExpense(w2, c, cl.recentExpenses, TRUE,
                                           cl.pendingExpense[1].amount,
                                           cl.pendingExpense[1].category,
                                           noteMatch[1], "note")
               IN  [w3 EXCEPT !.exp.pendingExpense = Null]
        ELSE w1

\* the cleanup the last effect run returned: clearTimeout of its time-outs
expenseCleanup(w) ==
  LET Kept(t) == ~(t.kind \in {"expenseSave", "lockRelease"} /\ t.live)
  IN  [w EXCEPT !.timers = SelectSeq(@, Kept)]

\* the dependency array of the voice-command effect
expenseDeps(cmd, st) ==
  <<cmd, st.pendingExpense, st.lastProcessedCommand, st.processingLock>>

\* renders of the mounted tracker: when a dependency differs from the one of
\* the previous render, the cleanup of the previous run and then the effect run
RECURSIVE expenseRender(_, _, _)
expenseRender(c, w, prevDeps) ==
  IF expenseDeps(c.cmd, w.exp) = prevDeps THEN w
  ELSE expenseRender(c, expenseEffect(c, w.exp, expenseCleanup(w)),
                     expenseDeps(c.cmd, w.exp))

mountExpense(c, w) ==
  LET w0 == [w EXCEPT !.exp = [ExpInitial EXCEPT
                                 !.recentExpenses = loadRecent(w.expenseStore)]]
  IN  expenseRender(c, expenseEffect(c, ExpInitial, w0),
                    expenseDeps(c.cmd, ExpInitial))

\* unmount runs the cleanup of the last effect run
unmountExpense(w) == [expenseCleanup(w) EXCEPT !.exp = ExpInitial]

\* the callback of saveTimeout
expenseTimeout(c, t, w) ==
  IF t.pending # Null /\ t.pending[1].amount = t.amountValue
    THEN LET w1 == handleSaveExpense(w, c, t.recent, t.live, t.amountValue,
                                     t.category, <<>>, "timer")
         IN  IF t.live
               THEN expenseRender(c, [w1 EXCEPT !.exp.pendingExpense = Null],
                                  expenseDeps(c.cmd, w.exp))
               ELSE w1
    ELSE w

\* the callback of lockTimeout
lockTimeout(c, t, w) ==
  IF t.live
    THEN expenseRender(c, [w EXCEPT !.exp.processingLock = FALSE],
                       expenseDeps(c.cmd, w.exp))
    ELSE w

\* a handleSubmit that says nothing about an amount it turns down
expenseSubmitSilent(c, w) ==
  LET amountValue == parseFloat(w.exp.amount)
  IN  IF isNaN(amountValue) \/ amountValue.val <= 0
        THEN w
        ELSE handleSaveExpense(w, c, w.exp.recentExpenses, TRUE,
                               amountValue.val, w.exp.category, w.exp.note,
                               "form")

\* handleSubmit
expenseSubmit(c, w) ==
  LET amountValue == parseFloat(w.exp.amount)
  IN  IF isNaN(amountValue) \/ amountValue.val <= 0
        THEN IF PropVoiceService # Null
               THEN speak(w, Msg("Please enter a valid amount.", 0, ""))
               ELSE w
        ELSE handleSaveExpense(w, c, w.exp.recentExpenses, TRUE,
                               amountValue.val, w.exp.category, w.exp.note,
                               "form")

----------------------------------------------------------------------------
(* VoiceRecognitionService.processCommand (lenient).  The result names the *)
(* handler called, its arguments, and the texts the service speaks.        *)

Call(name, amount, category, type, texts) ==
  [call |-> name, amount |-> amount, category |-> category, type |-> type,
   said |-> texts]

CouldNotUnderstand ==
  Msg("I could not understand the amount. Please try again with a clear number.", 0, "")

DidNotUnderstand ==
  Msg("Sorry, I didn't understand that command. Try saying 'record revenue' or 'record expense'.", 0, "")

SayRevenueAmount == Msg("Please say a number for the revenue amount", 0, "")

SayExpenseAmount ==
  Msg("Please say a number for the expense amount and a category", 0, "")

\* /^record revenue$/ || /^add revenue$/
isBareRevenueRecordOnly(command) == command = <<"record", "revenue">>

isBareRevenue(command) ==
  command \in {<<"record", "revenue">>, <<"add", "revenue">>}

\* /^record expense$/ || /^add expense$/
isBareExpense(command) ==
  command \in {<<"record", "expense">>, <<"add", "expense">>}

isRevenueStatus(command) ==
  includes(command, <<"total", "revenue">>) \/ matchHowMuch(command, "earn")

isExpensesStatus(command) ==
  includes(command, <<"total", "expenses">>) \/ matchHowMuch(command, "spend")

\* the question form only
isProfitStatusByQuestion(command) == matchHowMuch(command, "make")

isProfitStatus(command) ==
  includes(command, <<"profit">>) \/ matchHowMuch(command, "make")

\* a note answered like an unrecognized transcript
NoteReplySpoken == <<DidNotUnderstand>>

\* what the note branch says: it leaves the note to the trackers
NoteReply == <<>>

processCommand(command) ==
  LET rm == revenueMatch(command)
      ramount == parseAmount(rm[1])
      em == expenseMatch(command)
      eamount == parseAmount(em[1])
      category == categoryOf(em[2])
  IN
  IF isBareRevenue(command)
    THEN Call("none", 0, "", "", <<SayRevenueAmount>>)
  ELSE IF isBareExpense(command)
    THEN Call("none", 0, "", "", <<SayExpenseAmount>>)
  ELSE IF rm # Null
    THEN IF ~isNaN(ramount) /\ ramount.val > 0
           THEN Call("onRevenueCommand", ramount.val, "", "",
                     <<Msg("Recorded ${amount} dollars revenue.", ramount.val, "")>>)
           ELSE Call("none", 0, "", "", <<CouldNotUnderstand>>)
  ELSE IF matchNote(command) # Null
    THEN Call("none", 0, "", "", NoteReply)
  ELSE IF em # Null
    THEN IF ~isNaN(eamount) /\ eamount.val > 0
           THEN Call("onExpenseCommand", eamount.val, category, "",
                     <<Msg("Recorded ${amount} dollars expense for ${category}.",
                           eamount.val, category)>>)
           ELSE Call("none", 0, "", "", <<CouldNotUnderstand>>)
  ELSE IF isRevenueStatus(command)
    THEN Call("onStatusCommand", 0, "", "revenue", <<>>)
  ELSE IF isExpensesStatus(command)
    THEN Call("onStatusCommand", 0, "", "expenses", <<>>)
  ELSE IF isProfitStatus(command)
    THEN Call("onStatusCommand", 0, "", "profit", <<>>)
  ELSE Call("none", 0, "", "", <<DidNotUnderstand>>)

----------------------------------------------------------------------------
(* Dashboard *)

\* the sentence onStatusCommand builds
statusMessage(type, todayData) ==
  LET totalRevenue  == SumAmounts(todayData.revenue)
      totalExpenses == SumAmounts(todayData.expenses)
      profit        == totalRevenue - totalExpenses
  IN  IF type = "revenue"
        THEN Msg("Your total revenue today is ${formatCurrency(totalRevenue)}.",
                 totalRevenue, "")
      ELSE IF type = "expenses"
        THEN Msg("Your total expenses today are ${formatCurrency(totalExpenses)}.",
                 totalExpenses, "")
      ELSE Msg("Your profit so far today is ${formatCurrency(profit)}.",
               profit, "")

\* handlers.onRevenueCommand / onExpenseCommand / onStatusCommand: the tab
\* they select
handlerTab(p, tab) ==
  IF p.call = "onRevenueCommand" THEN "revenue"
  ELSE IF p.call = "onExpenseCommand" THEN "expenses"
  ELSE IF p.call = "onStatusCommand"
    THEN IF p.type = "profit" THEN "summary" ELSE p.type
  ELSE tab

\* handlers.onStatusCommand: what it speaks, through the voiceService its
\* closure holds
handlerSaid(p, w, clock) ==
  IF p.call = "onStatusCommand" /\ HandlersVoiceService # Null
    THEN <<statusMessage(p.type, getTodayData(w, clock))>>
    ELSE <<>>

\* the render after a Dashboard state change: a changed tab unmounts the old
\* tracker and mounts the new one, a changed lastCommand reaches the mounted
\* tracker as a changed prop
dashboardRender(c, w, oldTab, newTab, oldCmd) ==
  IF newTab # oldTab
    THEN LET w1 == IF oldTab = "revenue" THEN unmountRevenue(w)
                   ELSE IF oldTab = "expenses" THEN unmountExpense(w)
                   ELSE w
         IN  IF newTab = "revenue" THEN mountRevenue(c, w1)
             ELSE IF newTab = "expenses" THEN mountExpense(c, w1)
             ELSE w1
  ELSE IF newTab = "revenue"
    THEN revenueRender(c, w, revenueDeps(oldCmd, w.rev))
  ELSE IF newTab = "expenses"
    THEN expenseRender(c, w, expenseDeps(oldCmd, w.exp))
  ELSE w

----------------------------------------------------------------------------
(* Initial state and actions *)

Init ==
  /\ activeTab = "summary"
  /\ lastCommand = <<>>
  /\ rev = RevInitial
  /\ exp = ExpInitial
  /\ timers = <<>>
  /\ revenueStore = <<>>
  /\ expenseStore = <<>>
  /\ now = 0
  /\ dashboard = [revenue |-> <<>>, expenses |-> <<>>]
  /\ said = <<>>
  /\ delivered = <<>>
  /\ commitLog = <<>>
  /\ recognition = "idle"
  /\ isListening = [service |-> FALSE, dashboard |-> FALSE]
  /\ errors = <<>>
  /\ synthesis = <<>>
  /\ applied = Null

\* Init but for the pure function to apply
InitButApplied ==
  /\ activeTab = "summary"
  /\ lastCommand = <<>>
  /\ rev = RevInitial
  /\ exp = ExpInitial
  /\ timers = <<>>
  /\ revenueStore = <<>>
  /\ expenseStore = <<>>
  /\ now = 0
  /\ dashboard = [revenue |-> <<>>, expenses |-> <<>>]
  /\ said = <<>>
  /\ delivered = <<>>
  /\ commitLog = <<>>
  /\ recognition = "idle"
  /\ isListening = [service |-> FALSE, dashboard |-> FALSE]
  /\ errors = <<>>
  /\ synthesis = <<>>

\* the state a handler leaves, within the bounds of the model
Leaves(w) ==
  /\ Len(w.timers) <= MaxTimers
  /\ Len(w.commitLog) <= MaxCommits
  /\ rev' = w.rev
  /\ exp' = w.exp
  /\ timers' = w.timers
  /\ revenueStore' = w.revenueStore
  /\ expenseStore' = w.expenseStore
  /\ dashboard' = w.dashboard
  /\ said' = w.said
  /\ commitLog' = w.commitLog

\* the same for a handler that has no part in the session of the recogniser
Becomes(w) ==
  /\ Leaves(w)
  /\ UNCHANGED voiceVars

\* the handler of recognition.onresult: handlers.onResult(transcript), then
\* processCommand
transcribed(t) ==
  /\ LET p   == processCommand(t)
         tab == handlerTab(p, activeTab)
         c   == Ctx(t, Len(delivered) + 1)
         w0  == [World EXCEPT !.said = p.said \o handlerSaid(p, World, now)]
     IN  /\ Leaves(dashboardRender(c, w0, activeTab, tab, lastCommand))
         /\ activeTab' = tab
  /\ lastCommand' = t
  /\ delivered' = Append(delivered, t)
  /\ UNCHANGED now

\* recognition.onresult, the session left aside
onresult(t) ==
  /\ transcribed(t)
  /\ UNCHANGED voiceVars

\* a transcript is recognised
Deliver ==
  \E t \in Transcripts :
    /\ Len(delivered) < MaxDeliver
    /\ onresult(t)

\* a transcript is recognised, in runs with manual input
DeliverCore ==
  \E t \in CoreTranscripts :
    /\ Len(delivered) < MaxCoreDeliver
    /\ onresult(t)

\* the oldest time-out fires
TimerFire ==
  /\ timers # <<>>
  /\ LET t  == Head(timers)
         c  == Ctx(lastCommand, Len(delivered))
         w0 == [World EXCEPT !.timers = Tail(@)]
     IN  Becomes(CASE t.kind = "revenueSave" -> revenueTimeout(c, t, w0)
                   [] t.kind = "expenseSave" -> expenseTimeout(c, t, w0)
                   [] t.kind = "lockRelease" -> lockTimeout(c, t, w0))
  /\ UNCHANGED <<activeTab, lastCommand, now, delivered>>

\* a click on a tab button
ClickTab ==
  \E tab \in Tabs \ {activeTab} :
    /\ Becomes(dashboardRender(Ctx(lastCommand, Len(delivered)), World,
                               activeTab, tab, lastCommand))
    /\ activeTab' = tab
    /\ UNCHANGED <<lastCommand, now, delivered>>

\* onChange of the amount field of the mounted tracker
TypeAmount ==
  \E a \in FormAmounts :
    /\ activeTab \in {"revenue", "expenses"}
    /\ Becomes(IF activeTab = "revenue"
                 THEN [World EXCEPT !.rev.amount = a]
                 ELSE [World EXCEPT !.exp.amount = a])
    /\ UNCHANGED <<activeTab, lastCommand, now, delivered>>

\* onChange of the note field of the mounted tracker
TypeNote ==
  \E n \in FormNotes :
    /\ activeTab \in {"revenue", "expenses"}
    /\ Becomes(IF activeTab = "revenue"
                 THEN [World EXCEPT !.rev.note = n]
                 ELSE [World EXCEPT !.exp.note = n])
    /\ UNCHANGED <<activeTab, lastCommand, now, delivered>>

\* onChange of the category field of ExpenseTracker
SelectCategory ==
  \E k \in FormCategories :
    /\ activeTab = "expenses"
    /\ Becomes([World EXCEPT !.exp.category = k])
    /\ UNCHANGED <<activeTab, lastCommand, now, delivered>>

\* onSubmit of the form of RevenueTracker
SubmitRevenue ==
  /\ activeTab = "revenue"
  /\ Becomes(revenueSubmit(Ctx(lastCommand, Len(delivered)), World))
  /\ UNCHANGED <<activeTab, lastCommand, now, delivered>>

\* onSubmit of the form of ExpenseTracker
SubmitExpense ==
  /\ activeTab = "expenses"
  /\ Becomes(expenseSubmit(Ctx(lastCommand, Len(delivered)), World))
  /\ UNCHANGED <<activeTab, lastCommand, now, delivered>>

\* the clock advances
Tick ==
  /\ now < MaxNow
  /\ now' = now + 1
  /\ said' = <<>>
  /\ UNCHANGED <<activeTab, lastCommand, rev, exp, timers, revenueStore,
                 expenseStore, dashboard, delivered, commitLog>>
  /\ UNCHANGED voiceVars

\* every input but the note and category fields
Next ==
  \/ DeliverCore
  \/ TimerFire
  \/ ClickTab
  \/ TypeAmount
  \/ SubmitRevenue
  \/ SubmitExpense
  \/ Tick

Spec == Init /\ [][Next]_vars

\* transcripts and time-outs only: no click, no form input
NextVoice == Deliver \/ TimerFire

SpecVoice == Init /\ [][NextVoice]_vars

\* transcripts, time-outs and the forms: the tab changes by voice only
NextManual ==
  \/ DeliverCore
  \/ TimerFire
  \/ TypeAmount
  \/ TypeNote
  \/ SelectCategory
  \/ SubmitRevenue
  \/ SubmitExpense

SpecManual == Init /\ [][NextManual]_vars

----------------------------------------------------------------------------
(* The build with the strict RevenueTracker (components/RevenueTracker.tsx) *)
(* and the strict VoiceRecognitionService: numerals only, no time-out.     *)

RecordRevenue0 == <<"record", "revenue", "0">>

StrictTranscripts ==
  {RecordRevenue10, RecordRevenue0, AddNoteParkingFee, ProfitQuery}

\* lastCommand.match(record revenue digits) || lastCommand.match(add revenue digits)
strictRevenueMatch(cmd) ==
  FirstMatch(<<matchRevenueDigits(cmd, "record"), matchRevenueDigits(cmd, "add")>>)

\* command.match(record expense digits for ..) || command.match(add expense ..)
strictExpenseMatch(cmd) ==
  FirstMatch(<<matchExpenseDigits(cmd, "record"), matchExpenseDigits(cmd, "add")>>)

\* the test a parsed amount must pass to be staged
strictAmountValid(amount) == ~isNaN(amount)

\* handleSaveRevenue of the strict tracker: the same text as the lenient one
strictHandleSaveRevenue(w, c, recent, live, amountValue, noteValue, via) ==
  handleSaveRevenue(w, c, recent, live, amountValue, noteValue, via)

\* a pending amount that outlives the commit of its note
strictPendingKept(pending) == pending

\* setPendingAmount(null) after the commit of the note
strictPendingAfterNote(pending) == Null

\* one run of the voice-command effect; cl: the state of the render that
\* created it
strictEffect(c, cl, w) ==
  IF c.cmd = <<>> THEN w
  ELSE
    LET m == strictRevenueMatch(c.cmd)
        amount == parseFloat(m[1])
        staged == m # Null /\ strictAmountValid(amount)
        w1 == IF staged
                THEN [w EXCEPT
                        !.rev.amount = toString(amount.val),
                        !.rev.pendingAmount = Some(amount.val)]
                ELSE w
        noteMatch == matchNote(c.cmd)
    IN  IF cl.pendingAmount # Null /\ noteMatch # Null
          THEN LET w2 == [w1 EXCEPT !.rev.note = noteMatch[1]]
                   w3 == strictHandleSaveRevenue(w2, c, cl.recentRevenue, TRUE,
                                                 cl.pendingAmount[1],
                                                 noteMatch[1], "note")
               IN  [w3 EXCEPT !.rev.pendingAmount =
                                 strictPendingAfterNote(cl.pendingAmount)]
          ELSE w1

\* renders of the mounted strict tracker
RECURSIVE strictRender(_, _, _)
strictRender(c, w, prevDeps) ==
  IF revenueDeps(c.cmd, w.rev) = prevDeps THEN w
  ELSE strictRender(c, strictEffect(c, w.rev, w), revenueDeps(c.cmd, w.rev))

mountStrict(c, w) ==
  LET w0 == [w EXCEPT !.rev = [RevInitial EXCEPT
                                 !.recentRevenue = loadRecent(w.revenueStore)]]
  IN  strictRender(c, strictEffect(c, RevInitial, w0),
                   revenueDeps(c.cmd, RevInitial))

unmountStrict(w) == [w EXCEPT !.rev = RevInitial]

\* handleSubmit of the strict tracker
strictSubmit(c, w) ==
  LET amountValue == parseFloat(w.rev.amount)
  IN  IF isNaN(amountValue) \/ amountValue.val <= 0
        THEN IF PropVoiceService # Null
               THEN speak(w, Msg("Please enter a valid amount.", 0, ""))
               ELSE w
        ELSE strictHandleSaveRevenue(w, c, w.rev.recentRevenue, TRUE,
                                     amountValue.val, w.rev.note, "form")

\* processCommand of the strict service
strictProcessCommand(command) ==
  LET rm == strictRevenueMatch(command)
      ramount == parseFloat(rm[1])
      em == strictExpenseMatch(command)
      eamount == parseFloat(em[1])
      category == categoryOf(em[2])
  IN
  IF rm # Null /\ ~isNaN(ramount)
    THEN Call("onRevenueCommand", ramount.val, "", "",
              <<Msg("Recorded ${amount} dollars revenue.", ramount.val, "")>>)
  ELSE IF matchNote(command) # Null
    THEN Call("none", 0, "", "", <<>>)
  ELSE IF em # Null /\ ~isNaN(eamount)
    THEN Call("onExpenseCommand", eamount.val, category, "",
              <<Msg("Recorded ${amount} dollars expense for ${category}.",
                    eamount.val, category)>>)
  ELSE IF includes(command, <<"total", "revenue">>) \/ matchHowMuch(command, "earn")
    THEN Call("onStatusCommand", 0, "", "revenue", <<>>)
  ELSE IF includes(command, <<"total", "expenses">>) \/ matchHowMuch(command, "spend")
    THEN Call("onStatusCommand", 0, "", "expenses", <<>>)
  ELSE IF includes(command, <<"profit">>) \/ matchHowMuch(command, "make")
    THEN Call("onStatusCommand", 0, "", "profit", <<>>)
  ELSE Call("none", 0, "", "", <<DidNotUnderstand>>)

\* the render after a Dashboard state change, the strict tracker on the
\* revenue tab
strictDashboardRender(c, w, oldTab, newTab, oldCmd) ==
  IF newTab # oldTab
    THEN LET w1 == IF oldTab = "revenue" THEN unmountStrict(w)
                   ELSE IF oldTab = "expenses" THEN unmountExpense(w)
                   ELSE w
         IN  IF newTab = "revenue" THEN mountStrict(c, w1)
             ELSE IF newTab = "expenses" THEN mountExpense(c, w1)
             ELSE w1
  ELSE IF newTab = "revenue"
    THEN strictRender(c, w, revenueDeps(oldCmd, w.rev))
  ELSE IF newTab = "expenses"
    THEN expenseRender(c, w, expenseDeps(oldCmd, w.exp))
  ELSE w

\* recognition.onresult of the strict service
strictOnresult(t) ==
  /\ LET p   == strictProcessCommand(t)
         tab == handlerTab(p, activeTab)
         c   == Ctx(t, Len(delivered) + 1)
         w0  == [World EXCEPT !.said = p.said \o handlerSaid(p, World, now)]
     IN  /\ Becomes(strictDashboardRender(c, w0, activeTab, tab, lastCommand))
         /\ activeTab' = tab
  /\ lastCommand' = t
  /\ delivered' = Append(delivered, t)
  /\ UNCHANGED now

\* a transcript is recognised, strict build
DeliverStrict ==
  \E t \in StrictTranscripts :
    /\ Len(delivered) < MaxStrictDeliver
    /\ strictOnresult(t)

\* a click on a tab button, strict build
ClickTabStrict ==
  \E tab \in Tabs \ {activeTab} :
    /\ Becomes(strictDashboardRender(Ctx(lastCommand, Len(delivered)), World,
                                     activeTab, tab, lastCommand))
    /\ activeTab' = tab
    /\ UNCHANGED <<lastCommand, now, delivered>>

\* onSubmit of the form of the strict RevenueTracker
SubmitStrict ==
  /\ activeTab = "revenue"
  /\ Becomes(strictSubmit(Ctx(lastCommand, Len(delivered)), World))
  /\ UNCHANGED <<activeTab, lastCommand, now, delivered>>

\* the strict build: the strict tracker starts no time-out, and the cleanup
\* of ExpenseTracker clears its time-outs in the render that follows the
\* effect run that started them
NextStrict ==
  \/ DeliverStrict
  \/ ClickTabStrict
  \/ TypeAmount
  \/ SubmitStrict
  \/ SubmitExpense

SpecStrict == Init /\ [][NextStrict]_vars

----------------------------------------------------------------------------
(* Runs that exercise every rule of processCommand *)

BareRecordRevenue == <<"record", "revenue">>
BareAddRevenue    == <<"add", "revenue">>
BareRecordExpense == <<"record", "expense">>
BareAddExpense    == <<"add", "expense">>
RecordRevenueToday   == <<"record", "revenue", "today">>
RecordExpenseZeroGas == <<"record", "expense", "zero", "for", "gas">>
ExpenseAndNote ==
  <<"record", "expense", "5", "for", "gas", "add", "note", "cash">>
NoteQuotingRevenue == <<"add", "note", "record", "revenue", "zero">>
ExpensesAdvertised == <<"what", "are", "my", "expenses", "today">>
TotalRevenueAndProfit == <<"what's", "my", "total", "revenue", "and", "profit">>
RevenueExpensesProfit == <<"revenue", "minus", "expenses", "profit">>
Hello == <<"hello">>
AddRevenue15 == <<"add", "revenue", "15">>
AddExpense10Tolls == <<"add", "expense", "10", "for", "tolls">>
RecordRevenueTwentyFive == <<"record", "revenue", "twenty", "five">>

ServiceTranscripts ==
  {BareRecordRevenue, BareAddRevenue, BareRecordExpense, BareAddExpense,
   RecordRevenue10, RecordRevenueToday, AddRevenue15, AddExpense10Tolls,
   RecordRevenueTwentyFive,
   RecordExpense5Snacks, RecordExpenseZeroGas, AddNoteParkingFee,
   ExpenseAndNote, NoteQuotingRevenue, RevenueQuery, ExpensesAdvertised,
   ProfitQuery, TotalRevenueAndProfit, RevenueExpensesProfit, Hello}

\* a transcript is recognised, in the runs of the service
DeliverService ==
  \E t \in ServiceTranscripts :
    /\ Len(delivered) < MaxServiceDeliver
    /\ onresult(t)

NextService == DeliverService \/ TimerFire \/ ClickTab

SpecService == Init /\ [][NextService]_vars

\* the same runs without clicks: the tab changes through the handlers only
NextClassify == DeliverService \/ TimerFire

SpecClassify == Init /\ [][NextClassify]_vars

----------------------------------------------------------------------------
(* Direct applications of wordToNumber and of the category chain.  The      *)
(* string handed to wordToNumber is a sequence of pieces: a word of wordMap *)
(* in small or in capital letters, or one white space character.            *)

Space == [word |-> " ", capital |-> FALSE]
Piece(w, c) == [word |-> w, capital |-> c]

\* String.prototype.toLowerCase
toLowerCase(raw) == [i \in DOMAIN raw |-> [raw[i] EXCEPT !.capital = FALSE]]

\* String.prototype.trim: without the white space at both ends
trim(raw) ==
  LET inked == {i \in DOMAIN raw : raw[i] # Space}
  IN  IF inked = {} THEN <<>>
      ELSE SubSeq(raw, CHOOSE i \in inked : \A j \in inked : i <= j,
                       CHOOSE i \in inked : \A j \in inked : j <= i)

\* the key a piece is looked up with: wordMap has keys in small letters only
keyOf(piece) == IF piece.capital THEN "CAPITALS" ELSE piece.word

\* split(/\s+/) of a trimmed string whose words are separated by white space:
\* the words between the runs of white space
split(raw) ==
  LET words == SelectSeq(raw, LAMBDA piece : piece # Space)
  IN  [i \in DOMAIN words |-> keyOf(words[i])]

\* cleanWord of wordToNumber with the case left as it is
cleanWordCaseKept(raw) == trim(raw)

\* const cleanWord = word.toLowerCase().trim()
cleanWord(raw) == trim(toLowerCase(raw))

\* wordToNumber on a string: a key of wordMap is one word, so the look-up of
\* the whole cleanWord and the one of its two parts are those of its words
wordToNumberOf(raw) == wordToNumber(split(cleanWord(raw)))

TensWords == {"twenty", "thirty", "forty", "fifty", "sixty", "seventy",
              "eighty", "ninety"}
OnesWords == {"zero", "one", "two", "three", "four", "five", "six", "seven",
              "eight", "nine"}

Pad(n) == [i \in 1..n |-> Space]

\* one word or two words of wordMap, each in small or in capital letters,
\* with white space around and between them
NumberStrings ==
  {Pad(l) \o <<Piece(a, ca)>> \o Pad(t) :
     l \in 0..MaxPad, t \in 0..MaxPad, a \in DOMAIN wordMap, ca \in BOOLEAN}
  \cup
  {Pad(l) \o <<Piece(a, c)>> \o Pad(g) \o <<Piece(b, c)>> \o Pad(t) :
     l \in 0..MaxPad, t \in 0..MaxPad, g \in 1..MaxGap,
     a \in DOMAIN wordMap, b \in DOMAIN wordMap, c \in BOOLEAN}

CategoryWords ==
  {"gas", "vegas", "maintenance", "car", "wash", "snacks", "tolls", "parking"}

\* the texts after "for" of an expense command
CategoryTexts ==
  UNION {[1..n -> CategoryWords] : n \in 1..MaxCategoryWords}

InitApply ==
  /\ InitButApplied
  /\ applied \in
       {[fn |-> "wordToNumber", arg |-> raw, out |-> Null] :
          raw \in NumberStrings}
       \cup {[fn |-> "category", arg |-> text, out |-> Null] :
               text \in CategoryTexts}

\* wordToNumber(word)
ApplyWordToNumber ==
  /\ applied.fn = "wordToNumber"
  /\ applied.out = Null
  /\ applied' = [applied EXCEPT !.out = Some(wordToNumberOf(applied.arg))]
  /\ UNCHANGED ledgerVars
  /\ UNCHANGED <<recognition, isListening, errors, synthesis>>

\* the category chain on categoryText
ApplyCategory ==
  /\ applied.fn = "category"
  /\ applied.out = Null
  /\ applied' = [applied EXCEPT !.out = Some(categoryOf(applied.arg))]
  /\ UNCHANGED ledgerVars
  /\ UNCHANGED <<recognition, isListening, errors, synthesis>>

NextApply ==
  \/ ApplyWordToNumber
  \/ ApplyCategory

SpecApply == InitApply /\ [][NextApply]_vars

----------------------------------------------------------------------------
(* The operations of utils/storage.ts applied one by one.  localStorage is  *)
(* the function from the two keys to the lists read back from them.         *)

REVENUE_KEY == "lyft_revenue"
EXPENSES_KEY == "lyft_expenses"

localStorage ==
  [key \in {REVENUE_KEY, EXPENSES_KEY} |->
     IF key = REVENUE_KEY THEN revenueStore ELSE expenseStore]

\* localStorage.removeItem(key): getItem gives null, which is read as []
removeItem(storage, key) == [storage EXCEPT ![key] = <<>>]

\* a clearRevenue that removes every key
clearRevenueAll(storage) ==
  removeItem(removeItem(storage, REVENUE_KEY), EXPENSES_KEY)

clearRevenue(storage) == removeItem(storage, REVENUE_KEY)

clearExpenses(storage) == removeItem(storage, EXPENSES_KEY)

\* saveRevenue and saveExpense on localStorage: each reads and writes its key
storeRevenue(storage, revenue) ==
  [storage EXCEPT ![REVENUE_KEY] = saveRevenue(@, revenue)]

storeExpense(storage, expense) ==
  [storage EXCEPT ![EXPENSES_KEY] = saveExpense(@, expense)]

RevenueEntries ==
  {[id |-> 0, amount |-> 10, timestamp |-> 0, note |-> Undefined],
   [id |-> 1, amount |-> 5, timestamp |-> 1, note |-> <<"parking", "fee">>],
   [id |-> 1, amount |-> 15, timestamp |-> 1, note |-> Undefined]}

ExpenseEntries ==
  {[id |-> 0, amount |-> 15, category |-> "Gas", timestamp |-> 0,
    note |-> Undefined],
   [id |-> 1, amount |-> 5, category |-> "Snacks", timestamp |-> 1,
    note |-> <<"cash">>]}

\* the state after an operation that left localStorage as storage
Stored(storage, fn, arg) ==
  /\ revenueStore' = storage[REVENUE_KEY]
  /\ expenseStore' = storage[EXPENSES_KEY]
  /\ applied' = Some([fn |-> fn, arg |-> arg])
  /\ UNCHANGED <<activeTab, lastCommand, rev, exp, timers, now, dashboard,
                 said, delivered, commitLog>>
  /\ UNCHANGED <<recognition, isListening, errors, synthesis>>

SaveRevenue ==
  \E revenue \in RevenueEntries :
    /\ Len(revenueStore) < MaxStored
    /\ Stored(storeRevenue(localStorage, revenue), "saveRevenue", revenue)

SaveExpense ==
  \E expense \in ExpenseEntries :
    /\ Len(expenseStore) < MaxStored
    /\ Stored(storeExpense(localStorage, expense), "saveExpense", expense)

ClearRevenue == Stored(clearRevenue(localStorage), "clearRevenue", Null)

ClearExpenses == Stored(clearExpenses(localStorage), "clearExpenses", Null)

NextStore ==
  \/ SaveRevenue
  \/ SaveExpense
  \/ ClearRevenue
  \/ ClearExpenses

SpecStore == Init /\ [][NextStore]_vars

----------------------------------------------------------------------------
(* The utterance queue of window.speechSynthesis under speak() of the      *)
(* service                                                                  *)

\* speechSynthesis.cancel(): every utterance leaves the queue, the one being
\* spoken stops
cancel(queue) == <<>>

\* speechSynthesis.speak(utterance): the utterance joins the queue
enqueue(queue, utterance) == Append(queue, utterance)

\* a speak() that does not stop the speech before
speakQueued(queue, text) == enqueue(queue, text)

\* VoiceRecognitionService.speak(text), window.speechSynthesis being there
speakNow(queue, text) == enqueue(cancel(queue), text)

SpokenTexts ==
  {SayRevenueAmount, CouldNotUnderstand, DidNotUnderstand,
   Msg("Recorded ${amount} dollars revenue.", 10, "")}

\* the texts speak() was called with so far
Requested == IF applied = Null THEN <<>> ELSE applied[1].arg

\* a caller calls speak(text)
Speak ==
  \E text \in SpokenTexts :
    /\ Len(Requested) < MaxSpoken
    /\ synthesis' = speakNow(synthesis, text)
    /\ applied' = Some([fn |-> "speak", arg |-> Append(Requested, text)])
    /\ UNCHANGED ledgerVars
    /\ UNCHANGED <<recognition, isListening, errors>>

\* the utterance being spoken comes to its end
UtteranceEnds ==
  /\ synthesis # <<>>
  /\ synthesis' = Tail(synthesis)
  /\ UNCHANGED ledgerVars
  /\ UNCHANGED <<recognition, isListening, errors, applied>>

NextSpeech ==
  \/ Speak
  \/ UtteranceEnds

SpecSpeech == Init /\ [][NextSpeech]_vars

----------------------------------------------------------------------------
(* The sessions of the recogniser.  recognition is the phase of the session *)
(* of the SpeechRecognition object: start() of an idle object begins one,   *)
(* the start event opens it, and the end event follows its result, its      *)
(* error or stop().                                                         *)

\* recognition.start(): an object that is not idle throws InvalidStateError
recognitionStart(phase) == IF phase = "idle" THEN "starting" ELSE phase

\* recognition.stop()
recognitionStop(phase) ==
  IF phase \in {"starting", "listening"} THEN "ending" ELSE phase

\* handlers.onListening of Dashboard: setIsListening(listening)
onListening(flags, listening) ==
  [flags EXCEPT !.dashboard = listening]

\* this.recognition of the service: null ("none") where the browser has no
\* SpeechRecognition
hasRecognition(phase) == phase # "none"

\* the condition under which start() calls recognition.start()
startCalls(phase, flags) == hasRecognition(phase) /\ ~flags.service

\* the condition under which stop() calls recognition.stop()
stopCalls(phase, flags) == hasRecognition(phase) /\ flags.service

\* a start() without the test of this.recognition
startUnguarded(phase, flags) ==
  IF ~flags.service THEN "starting" ELSE phase

\* VoiceRecognitionService.start()
start(phase, flags) ==
  IF startCalls(phase, flags) THEN recognitionStart(phase) ELSE phase

\* VoiceRecognitionService.stop()
stop(phase, flags) ==
  IF stopCalls(phase, flags) THEN recognitionStop(phase) ELSE phase

NotSupportedError ==
  Msg("Speech recognition is not supported in this browser.", 0, "")

\* the constructor of the service: initRecognition() reports the missing
\* SpeechRecognition and returns before it creates and wires the object
initRecognition(supported) ==
  [recognition |-> IF supported THEN "idle" ELSE "none",
   errors |-> IF supported THEN <<>> ELSE <<NotSupportedError>>]

\* a recognition.onerror that leaves the flags as they are
onerrorFlagsKept(flags) == flags

\* recognition.onerror after handlers.onError: isListening = false, then
\* handlers.onListening(false)
onerrorFlags(flags) ==
  onListening([flags EXCEPT !.service = FALSE], FALSE)

SpeechRecognitionError ==
  Msg("Speech recognition error: ${event.error}", 0, "")

HeardTranscripts == {RecordRevenue10, RecordExpense5Snacks, AddNoteParkingFee}

\* toggleListening: the voice button of Dashboard.  applied keeps the last
\* call of the service: its method, the phase of the object it found and
\* whether it called the method of the object
ToggleListening ==
  /\ recognition' = IF isListening.dashboard
                      THEN stop(recognition, isListening)
                      ELSE start(recognition, isListening)
  /\ applied' = IF isListening.dashboard
                  THEN Some([fn |-> "stop", arg |-> recognition,
                             called |-> stopCalls(recognition, isListening)])
                  ELSE Some([fn |-> "start", arg |-> recognition,
                             called |-> startCalls(recognition, isListening)])
  /\ UNCHANGED ledgerVars
  /\ UNCHANGED <<isListening, errors, synthesis>>

\* recognition.onstart
OnStart ==
  /\ recognition = "starting"
  /\ recognition' = "listening"
  /\ isListening' = onListening([isListening EXCEPT !.service = TRUE], TRUE)
  /\ UNCHANGED ledgerVars
  /\ UNCHANGED <<errors, synthesis, applied>>

\* recognition.onend: after a result, an error or stop(), or of itself
OnEnd ==
  /\ recognition \in {"listening", "ending"}
  /\ recognition' = "idle"
  /\ isListening' = onListening([isListening EXCEPT !.service = FALSE], FALSE)
  /\ UNCHANGED ledgerVars
  /\ UNCHANGED <<errors, synthesis, applied>>

\* recognition.onerror
OnError ==
  /\ recognition \in {"starting", "listening"}
  /\ Len(errors) < MaxErrors
  /\ errors' = Append(errors, SpeechRecognitionError)
  /\ isListening' = onerrorFlags(isListening)
  /\ recognition' = "ending"
  /\ UNCHANGED ledgerVars
  /\ UNCHANGED <<synthesis, applied>>

\* recognition.onresult of a session; continuous is false, the session ends
DeliverHeard ==
  \E t \in HeardTranscripts :
    /\ recognition = "listening"
    /\ Len(delivered) < MaxHeard
    /\ transcribed(t)
    /\ recognition' = "ending"
    /\ UNCHANGED <<isListening, errors, synthesis, applied>>

NextListen ==
  \/ ToggleListening
  \/ OnStart
  \/ OnEnd
  \/ OnError
  \/ DeliverHeard
  \/ TimerFire

SpecListen == Init /\ [][NextListen]_vars

\* the state after construction in a browser without SpeechRecognition
InitUnsupported ==
  /\ activeTab = "summary"
  /\ lastCommand = <<>>
  /\ rev = RevInitial
  /\ exp = ExpInitial
  /\ timers = <<>>
  /\ revenueStore = <<>>
  /\ expenseStore = <<>>
  /\ now = 0
  /\ dashboard = [revenue |-> <<>>, expenses |-> <<>>]
  /\ said = <<>>
  /\ delivered = <<>>
  /\ commitLog = <<>>
  /\ recognition = initRecognition(FALSE).recognition
  /\ errors = initRecognition(FALSE).errors
  /\ isListening = [service |-> FALSE, dashboard |-> FALSE]
  /\ synthesis = <<>>
  /\ applied = Null

\* what is left to do there: the voice button, the tabs and the forms; no
\* event of a recogniser arrives, its handlers are never set
NextUnsupported ==
  \/ ToggleListening
  \/ ClickTab
  \/ TypeAmount
  \/ TypeNote
  \/ SubmitRevenue
  \/ SubmitExpense

SpecUnsupported == InitUnsupported /\ [][NextUnsupported]_vars

----------------------------------------------------------------------------
(* The day of getTodayData: entries stamped by Date.now() and read back by   *)
(* Dashboard under a wall clock                                              *)

\* today.setHours(0, 0, 0, 0)
startOfDay(clock) == clock - (clock % TicksPerDay)

\* the entry a tracker builds at a reading of the clock
stampedRevenue(clock) ==
  [id |-> clock, amount |-> 10, timestamp |-> clock, note |-> Undefined]

stampedExpense(clock) ==
  [id |-> clock, amount |-> 5, category |-> "Gas", timestamp |-> clock,
   note |-> Undefined]

\* loadTodayData of Dashboard; applied keeps the reading of the clock
Loaded(w) ==
  /\ revenueStore' = w.revenueStore
  /\ expenseStore' = w.expenseStore
  /\ dashboard' = getTodayData(w, now)
  /\ applied' = Some([fn |-> "getTodayData", arg |-> now])
  /\ UNCHANGED <<activeTab, lastCommand, rev, exp, timers, now, said,
                 delivered, commitLog>>
  /\ UNCHANGED <<recognition, isListening, errors, synthesis>>

\* the interval of Dashboard that reloads the data of today
LoadTodayData == Loaded(World)

\* a tracker saves an entry and calls onDataChange
SaveStampedRevenue ==
  /\ Len(revenueStore) < MaxStored
  /\ Loaded([World EXCEPT
               !.revenueStore = saveRevenue(@, stampedRevenue(now))])

SaveStampedExpense ==
  /\ Len(expenseStore) < MaxStored
  /\ Loaded([World EXCEPT
               !.expenseStore = saveExpense(@, stampedExpense(now))])

\* Date.now() is the wall clock of the system: it moves on, and a correction
\* of the system time sets it back.  Readings run from 00:00 of one day to
\* 00:00 of the next.
ClockReads ==
  /\ \E reading \in 0..TicksPerDay :
       /\ reading # now
       /\ now' = reading
  /\ UNCHANGED <<activeTab, lastCommand, rev, exp, timers, revenueStore,
                 expenseStore, dashboard, said, delivered, commitLog>>
  /\ UNCHANGED voiceVars

NextToday ==
  \/ LoadTodayData
  \/ SaveStampedRevenue
  \/ SaveStampedExpense
  \/ ClockReads

SpecToday == Init /\ [][NextToday]_vars

----------------------------------------------------------------------------
(* Summary and the profit query over the data of today                       *)

\* enum ExpenseCategory
ExpenseCategory ==
  {"Gas", "Maintenance", "Car Wash", "Snacks", "Tolls", "Other"}

\* the amounts of the entries saved here
SummaryAmounts == {5, 25}

\* a sum by category that leaves ExpenseCategory.OTHER at its initial 0
expensesByCategoryOtherLeftOut(expenses) ==
  LET Of(c) == SelectSeq(expenses, LAMBDA e : e.category = c /\ c # "Other")
  IN  [c \in ExpenseCategory |-> SumAmounts(Of(c))]

\* expensesByCategory of summaryData: every category starts at 0 and each
\* expense is added to the total of its category
expensesByCategory(expenses) ==
  LET Of(c) == SelectSeq(expenses, LAMBDA e : e.category = c)
  IN  [c \in ExpenseCategory |-> SumAmounts(Of(c))]

\* summaryData of Summary
summaryData(revenue, expenses) ==
  LET totalRevenue  == SumAmounts(revenue)
      totalExpenses == SumAmounts(expenses)
  IN  [totalRevenue       |-> totalRevenue,
       totalExpenses      |-> totalExpenses,
       netProfit          |-> totalRevenue - totalExpenses,
       expensesByCategory |-> expensesByCategory(expenses)]

\* a tracker saves an entry and calls onDataChange
SavedForSummary(w) ==
  /\ revenueStore' = w.revenueStore
  /\ expenseStore' = w.expenseStore
  /\ dashboard' = getTodayData(w, now)
  /\ UNCHANGED <<activeTab, lastCommand, rev, exp, timers, now, said,
                 delivered, commitLog>>
  /\ UNCHANGED voiceVars

SaveSummaryRevenue ==
  \E amount \in SummaryAmounts :
    /\ Len(revenueStore) < MaxStored
    /\ SavedForSummary([World EXCEPT !.revenueStore =
         saveRevenue(@, [stampedRevenue(now) EXCEPT !.amount = amount])])

SaveSummaryExpense ==
  \E amount \in SummaryAmounts, category \in ExpenseCategory :
    /\ Len(expenseStore) < MaxStored
    /\ SavedForSummary([World EXCEPT !.expenseStore =
         saveExpense(@, [stampedExpense(now) EXCEPT !.amount = amount,
                                                    !.category = category])])

\* onStatusCommand('profit'): the Summary tab is selected and renders the
\* revenue and expenses of Dashboard, the sentence is built over
\* getTodayData(); applied keeps both, with the data each was made from
StatusProfit ==
  /\ activeTab' = handlerTab([call |-> "onStatusCommand", type |-> "profit"],
                             activeTab)
  /\ applied' = Some([fn |-> "onStatusCommand",
                      arg |-> getTodayData(World, now),
                      out |-> statusMessage("profit", getTodayData(World, now)),
                      props |-> dashboard,
                      summary |-> summaryData(dashboard.revenue,
                                              dashboard.expenses)])
  /\ UNCHANGED <<lastCommand, rev, exp, timers, revenueStore, expenseStore,
                 now, dashboard, said, delivered, commitLog>>
  /\ UNCHANGED <<recognition, isListening, errors, synthesis>>

NextSummary ==
  \/ SaveSummaryRevenue
  \/ SaveSummaryExpense
  \/ StatusProfit

SpecSummary == Init /\ [][NextSummary]_vars

----------------------------------------------------------------------------
(* Properties *)

\* the step delivers a transcript
Delivers == Len(delivered') = Len(delivered) + 1

ParkingFee == <<"parking", "fee">>

\* the entries appended by the auto-commit time-outs
TimerCommits == {i \in DOMAIN commitLog : commitLog[i].via = "timer"}

\* C1: after "record revenue 10" and no further transcript, exactly one
\* Revenue entry {10, no note} is appended, it is appended once only, and
\* once no time-out is outstanding the pending amount is null.
C1_TimerCommitsOnce ==
  delivered = <<RecordRevenue10>> =>
    /\ Len(revenueStore) <= 1
    /\ \A i \in DOMAIN revenueStore :
         revenueStore[i].amount = 10 /\ revenueStore[i].note = Undefined
    /\ timers = <<>> => Len(revenueStore) = 1 /\ rev.pendingAmount = Null

\* C2: when "record revenue N" is followed by "add note T" while the entry is
\* pending (the first entry appended is the one with the note), that entry
\* {N, T} is the only one: the time-out of the pending entry appends no second.
C2_NoteResolvesOnce ==
  \A t \in {RecordRevenue10, RecordRevenue5} :
    ( /\ delivered = <<t, AddNoteParkingFee>>
      /\ commitLog # <<>>
      /\ commitLog[1].via = "note" )
    => /\ Len(revenueStore) = 1
       /\ revenueStore[1].amount = processCommand(t).amount
       /\ revenueStore[1].note = ParkingFee

\* C3: "record expense 15 for gas" followed by "add note parking fee" appends
\* exactly one Expense entry {15, Gas, "parking fee"} and leaves no pending
\* expense.
C3_ExpenseNoteCommits ==
  delivered = <<RecordExpense15Gas, AddNoteParkingFee>> =>
    /\ Len(expenseStore) = 1
    /\ expenseStore[1].amount = 15
    /\ expenseStore[1].category = "Gas"
    /\ expenseStore[1].note = ParkingFee
    /\ exp.pendingExpense = Null

\* C4: after "record expense N for <category>" (N > 0) and no note, once the
\* wait window is over (no time-out is outstanding) exactly one Expense entry
\* {N, category, no note} is in the store and no expense is pending.
C4_ExpenseTimerCommits ==
  \A t \in {RecordExpense15Gas, RecordExpense10Gas, RecordExpense5Snacks} :
    (delivered = <<t>> /\ timers = <<>>)
    => /\ Len(expenseStore) = 1
       /\ expenseStore[1].amount = processCommand(t).amount
       /\ expenseStore[1].category = processCommand(t).category
       /\ expenseStore[1].note = Undefined
       /\ exp.pendingExpense = Null

\* C5: "record expense 10 for gas" superseded by "record expense 5 for
\* snacks": once the wait window is over or a note has followed, exactly one
\* entry is persisted from the pair, with amount 5 and category Snacks; 10/Gas
\* is never persisted.
C5_ExpenseSupersede ==
  ( /\ Len(delivered) >= 2
    /\ delivered[1] = RecordExpense10Gas
    /\ delivered[2] = RecordExpense5Snacks
    /\ Len(delivered) = 3 => delivered[3] = AddNoteParkingFee )
  => /\ \A i \in DOMAIN expenseStore : expenseStore[i].amount # 10
     /\ (timers = <<>> \/ Len(delivered) = 3)
          => /\ Len(expenseStore) = 1
             /\ expenseStore[1].amount = 5
             /\ expenseStore[1].category = "Snacks"

\* C6: when "record revenue 5" arrives while the amount of "record revenue 10"
\* is pending, no time-out appends the first amount after the second command.
C6_SupersededNeverCommitted ==
  ( /\ Len(delivered) >= 2
    /\ delivered[1] = RecordRevenue10
    /\ delivered[2] = RecordRevenue5 )
  => \A i \in TimerCommits :
       commitLog[i].at >= 2 => commitLog[i].entry.amount # 10

\* C7: a status query leaves the pending entry of each tracker as it was.
C7_StatusKeepsPending ==
  [][ (Delivers /\ processCommand(lastCommand').call = "onStatusCommand")
      => /\ rev'.pendingAmount = rev.pendingAmount
         /\ exp'.pendingExpense = exp.pendingExpense ]_vars

\* C8: a status query is answered by exactly one speak() call, whose sentence
\* reports today's total of the queried kind.
C8_StatusSpokenOnce ==
  [][ (Delivers /\ processCommand(lastCommand').call = "onStatusCommand")
      => said' = <<statusMessage(processCommand(lastCommand').type,
                                 getTodayData(World, now))>> ]_vars

\* C9: the same transcript delivered twice in succession is processed by the
\* mounted tracker both times: the second "record revenue N" starts an
\* auto-commit time-out like the first.
C9_RepeatProcessedAgain ==
  [][ ( /\ Delivers
        /\ lastCommand' = lastCommand
        /\ processCommand(lastCommand).call = "onRevenueCommand"
        /\ activeTab = "revenue" )
      => Len(timers') > Len(timers) ]_vars

\* C10: every entry in the store has amount > 0, whichever path appended it.
C10_AmountsPositive ==
  /\ \A i \in DOMAIN revenueStore : revenueStore[i].amount > 0
  /\ \A i \in DOMAIN expenseStore : expenseStore[i].amount > 0

\* entries appended by a time-out and by a form, after a rejected amount
C10_Witness ==
  /\ \E i \in DOMAIN commitLog : commitLog[i].via = "timer"
  /\ \E i \in DOMAIN commitLog : commitLog[i].via = "form"
  /\ RecordRevenueZero \in {delivered[i] : i \in DOMAIN delivered}

\* C11: in the strict build every Revenue entry in the store has amount > 0.
C11_StrictAmountsPositive ==
  \A i \in DOMAIN revenueStore : revenueStore[i].amount > 0

\* no time-out is ever outstanding in the strict build
StrictNoTimers == timers = <<>>

\* C12: in the strict build "add note T", delivered while the amount N of
\* "record revenue N" is pending on the revenue tab, appends exactly the entry
\* {N, T} and leaves no pending amount; after that the Revenue list grows
\* only when a transcript arrives or the form is submitted.
C12_StrictNoteCommitsOnce ==
  [][ /\ ( /\ Delivers
           /\ activeTab = "revenue"
           /\ rev.pendingAmount # Null
           /\ strictRevenueMatch(lastCommand) # Null
           /\ lastCommand' = AddNoteParkingFee )
         => /\ Len(revenueStore') = Len(revenueStore) + 1
            /\ SubSeq(revenueStore', 1, Len(revenueStore)) = revenueStore
            /\ revenueStore'[Len(revenueStore')].amount = rev.pendingAmount[1]
            /\ revenueStore'[Len(revenueStore')].note = ParkingFee
            /\ rev'.pendingAmount = Null
            /\ timers' = <<>>
      /\ revenueStore' # revenueStore
           => \/ Delivers
              \/ commitLog'[Len(commitLog')].via = "form" ]_vars

\* "record revenue 10", then "add note parking fee": one entry {10, parking
\* fee}, nothing pending
C12_Witness ==
  /\ delivered = <<RecordRevenue10, AddNoteParkingFee>>
  /\ Len(revenueStore) = 1
  /\ revenueStore[1].amount = 10
  /\ revenueStore[1].note = ParkingFee
  /\ commitLog[1].via = "note"
  /\ rev.pendingAmount = Null


\* C13: the ids of the stored entries of one kind are pairwise distinct.
C13_IdsDistinct ==
  /\ \A i, j \in DOMAIN revenueStore :
       i # j => revenueStore[i].id # revenueStore[j].id
  /\ \A i, j \in DOMAIN expenseStore :
       i # j => expenseStore[i].id # expenseStore[j].id

\* s is t, or t without its last entry
KeptOrAppended(s, t) ==
  /\ Len(t) \in {Len(s), Len(s) + 1}
  /\ SubSeq(t, 1, Len(s)) = s

\* C14: every step leaves each list of the store as it was or appends one
\* entry at its end, the entries already stored unchanged in place; each
\* commit appends exactly one entry.
C14_AppendOnly ==
  [][ /\ KeptOrAppended(revenueStore, revenueStore')
      /\ KeptOrAppended(expenseStore, expenseStore')
      /\ Len(commitLog') - Len(commitLog) =
           (Len(revenueStore') - Len(revenueStore))
           + (Len(expenseStore') - Len(expenseStore))
      /\ Len(commitLog') > Len(commitLog) =>
           LET k == commitLog'[Len(commitLog')]
           IN  IF k.kind = "revenue"
                 THEN revenueStore'[Len(revenueStore')] = k.entry
                 ELSE expenseStore'[Len(expenseStore')] = k.entry ]_vars

\* a second Revenue entry was appended behind one that has a note, and an
\* entry came from a time-out or from the form
C14_Witness ==
  /\ Len(revenueStore) = 2
  /\ revenueStore[1].note = ParkingFee
  /\ revenueStore[2].note = Undefined
  /\ commitLog[2].via \in {"timer", "form"}

\* the rule of processCommand that handled a transcript, read off what it
\* called and said
classOf(p) ==
  IF p.call = "onRevenueCommand" THEN "revenue"
  ELSE IF p.call = "onExpenseCommand" THEN "expense"
  ELSE IF p.call = "onStatusCommand"
    THEN IF p.type = "revenue" THEN "revenue-status"
         ELSE IF p.type = "expenses" THEN "expenses-status"
         ELSE "profit-status"
  ELSE IF p.said = <<>> THEN "note"
  ELSE IF p.said = <<SayRevenueAmount>> THEN "bareRevenue"
  ELSE IF p.said = <<SayExpenseAmount>> THEN "bareExpense"
  ELSE IF p.said = <<CouldNotUnderstand>> THEN "invalidAmount"
  ELSE "unrecognized"

PositiveAmount(tok) == ~isNaN(parseAmount(tok)) /\ parseAmount(tok).val > 0

\* the rule that handles a transcript when the rules are tried in the order
\* bare revenue, bare expense, revenue, expense, note, revenue status,
\* expenses status, profit status
declaredClass(t) ==
  IF isBareRevenue(t) THEN "bareRevenue"
  ELSE IF isBareExpense(t) THEN "bareExpense"
  ELSE IF revenueMatch(t) # Null
    THEN IF PositiveAmount(revenueMatch(t)[1]) THEN "revenue" ELSE "invalidAmount"
  ELSE IF expenseMatch(t) # Null
    THEN IF PositiveAmount(expenseMatch(t)[1]) THEN "expense" ELSE "invalidAmount"
  ELSE IF matchNote(t) # Null THEN "note"
  ELSE IF isRevenueStatus(t) THEN "revenue-status"
  ELSE IF isExpensesStatus(t) THEN "expenses-status"
  ELSE IF isProfitStatus(t) THEN "profit-status"
  ELSE "unrecognized"

\* C15: every transcript is handled by the first matching rule in the order
\* bare revenue, bare expense, revenue, expense, note, revenue status,
\* expenses status, profit status, otherwise unrecognized; a transcript that
\* matches the expense and the note grammar is handled as the expense command.
C15_DeclaredOrder ==
  [][ Delivers =>
        classOf(processCommand(lastCommand')) = declaredClass(lastCommand') ]_vars

\* a rule that processCommand tries before the profit query matches
EarlierRuleMatches(t) ==
  \/ isBareRevenue(t) \/ isBareExpense(t)
  \/ revenueMatch(t) # Null \/ matchNote(t) # Null \/ expenseMatch(t) # Null
  \/ isRevenueStatus(t) \/ isExpensesStatus(t)

\* the step handles its transcript as the profit query
HandledAsProfitQuery ==
  /\ processCommand(lastCommand').call = "onStatusCommand"
  /\ processCommand(lastCommand').type = "profit"
  /\ activeTab' = "summary"

\* C16 as stated: every transcript that contains "profit" is handled as the
\* profit query.
C16_ProfitAlways ==
  [][ (Delivers /\ includes(lastCommand', <<"profit">>))
      => HandledAsProfitQuery ]_vars

\* C16 amended: a transcript that contains "profit" is handled as the profit
\* query exactly when no rule tried before the profit rule matches it; the
\* words "revenue" and "expenses" alone do not match such a rule.
C16_ProfitUnlessEarlierRule ==
  [][ (Delivers /\ includes(lastCommand', <<"profit">>))
      => (HandledAsProfitQuery <=> ~EarlierRuleMatches(lastCommand')) ]_vars

\* "revenue minus expenses profit" was handled as the profit query
C16_Witness ==
  /\ delivered = <<RecordRevenue10, RevenueExpensesProfit>>
  /\ activeTab = "summary"
  /\ said = <<>>

\* C17: each advertised status phrase is handled as the status query of its
\* kind.
C17_AdvertisedPhrases ==
  [][ Delivers =>
        /\ lastCommand' = RevenueQuery
             => classOf(processCommand(lastCommand')) = "revenue-status"
        /\ lastCommand' = ExpensesAdvertised
             => classOf(processCommand(lastCommand')) = "expenses-status"
        /\ lastCommand' = ProfitQuery
             => classOf(processCommand(lastCommand')) = "profit-status" ]_vars

\* a revenue or expense command whose amount is not a positive number
InvalidAmountCommand(t) ==
  IF revenueMatch(t) # Null THEN ~PositiveAmount(revenueMatch(t)[1])
  ELSE expenseMatch(t) # Null /\ ~PositiveAmount(expenseMatch(t)[1])

\* the step leaves the pending entries and the store as they were
PendingAndStoreUnchanged ==
  /\ rev'.pendingAmount = rev.pendingAmount
  /\ exp'.pendingExpense = exp.pendingExpense
  /\ revenueStore' = revenueStore
  /\ expenseStore' = expenseStore

\* C18: a revenue or expense command with an amount that is not a positive
\* number is answered with the "could not understand the amount" message,
\* calls no handler, and leaves the pending entries and the store unchanged.
C18_InvalidAmountNoEffect ==
  [][ (Delivers /\ InvalidAmountCommand(lastCommand'))
      => /\ processCommand(lastCommand').said = <<CouldNotUnderstand>>
         /\ processCommand(lastCommand').call = "none"
         /\ activeTab' = activeTab
         /\ PendingAndStoreUnchanged ]_vars

\* C18 for the transcripts that do not match the note grammar as well
InvalidAmountWithoutNote ==
  [][ (Delivers /\ InvalidAmountCommand(lastCommand')
               /\ matchNote(lastCommand') = Null)
      => /\ said' = <<CouldNotUnderstand>>
         /\ processCommand(lastCommand').call = "none"
         /\ activeTab' = activeTab
         /\ PendingAndStoreUnchanged ]_vars

\* no rule of processCommand matches the transcript
Unrecognized(t) == ~EarlierRuleMatches(t) /\ ~isProfitStatus(t)

\* C19: a transcript that matches no rule is answered with the rejection
\* message and changes no state: no handler is called, the tab, the trackers
\* and the store are as before.
C19_UnrecognizedNoMutation ==
  [][ (Delivers /\ Unrecognized(lastCommand'))
      => /\ said' = <<DidNotUnderstand>>
         /\ processCommand(lastCommand').call = "none"
         /\ activeTab' = activeTab
         /\ PendingAndStoreUnchanged
         /\ rev' = rev
         /\ exp' = exp ]_vars

\* C19 without the state of the trackers other than the pending entry
UnrecognizedKeepsPending ==
  [][ (Delivers /\ Unrecognized(lastCommand'))
      => /\ said' = <<DidNotUnderstand>>
         /\ processCommand(lastCommand').call = "none"
         /\ activeTab' = activeTab
         /\ PendingAndStoreUnchanged ]_vars

\* C20: a bare "record revenue", "add revenue", "record expense" or "add
\* expense" is answered with the request for an amount only: no handler is
\* called, the pending entries are as before and nothing is appended.
C20_BarePromptOnly ==
  [][ (Delivers /\ lastCommand' \in {BareRecordRevenue, BareAddRevenue,
                                     BareRecordExpense, BareAddExpense})
      => /\ said' = IF lastCommand'[2] = "revenue"
                      THEN <<SayRevenueAmount>> ELSE <<SayExpenseAmount>>
         /\ processCommand(lastCommand').call = "none"
         /\ activeTab' = activeTab
         /\ PendingAndStoreUnchanged ]_vars

\* "add revenue" arrived while the amount 10 was pending
C20_Witness ==
  /\ delivered = <<RecordRevenue10, BareAddRevenue>>
  /\ said = <<SayRevenueAmount>>
  /\ rev.pendingAmount = Some(10)
  /\ revenueStore = <<>>

\* the two words of a string handed to wordToNumber, in small letters
WordsOf(raw) == split(trim(toLowerCase(raw)))

TwoWordsApplied ==
  /\ applied # Null
  /\ applied.fn = "wordToNumber"
  /\ applied.out # Null
  /\ Len(WordsOf(applied.arg)) = 2

\* C22: wordToNumber on two words gives a number only for a first word of
\* twenty..ninety and a second word of zero..nine, and NaN for every other
\* pair of words of the vocabulary
C22_TwoWordsOnlyTensOnes ==
  TwoWordsApplied =>
    (~isNaN(applied.out[1]) =>
       /\ WordsOf(applied.arg)[1] \in TensWords
       /\ WordsOf(applied.arg)[2] \in OnesWords)

\* C23: wordToNumber on "<tens> <ones>", tens of twenty..ninety and ones of
\* zero..nine, gives tens + ones, whatever the case of the letters and the
\* white space around the words
C23_TensPlusOnes ==
  (/\ TwoWordsApplied
   /\ WordsOf(applied.arg)[1] \in TensWords
   /\ WordsOf(applied.arg)[2] \in OnesWords)
  => applied.out[1] = Num(wordMap[WordsOf(applied.arg)[1]]
                            + wordMap[WordsOf(applied.arg)[2]])

\* " TWENTY  FIVE " has given 25
C23_Witness ==
  /\ applied # Null
  /\ applied.fn = "wordToNumber"
  /\ applied.arg = <<Space, Piece("twenty", TRUE), Space, Space,
                     Piece("five", TRUE), Space>>
  /\ applied.out = Some(Num(25))

\* the substrings of the category chain in their order of priority
Priority ==
  <<[needle |-> <<"gas">>, category |-> "Gas"],
    [needle |-> <<"maintenance">>, category |-> "Maintenance"],
    [needle |-> <<"car", "wash">>, category |-> "Car Wash"],
    [needle |-> <<"snack">>, category |-> "Snacks"],
    [needle |-> <<"toll">>, category |-> "Tolls"]>>

\* C24: the category of a text is the one of the first of gas, maintenance,
\* car wash, snack, toll that occurs in the text, and Other when none occurs
C24_CategoryPriority ==
  (applied # Null /\ applied.fn = "category" /\ applied.out # Null) =>
    LET occurring == {i \in DOMAIN Priority :
                        includes(applied.arg, Priority[i].needle)}
    IN  applied.out[1] =
          IF occurring = {} THEN "Other"
          ELSE Priority[CHOOSE i \in occurring :
                          \A j \in occurring : i <= j].category

\* "tolls vegas" has given Gas
C24_Witness ==
  /\ applied # Null
  /\ applied.fn = "category"
  /\ applied.arg = <<"tolls", "vegas">>
  /\ applied.out = Some("Gas")

\* "(record|add) revenue N" with a numeral N of value > 0
NumeralRevenue(t) ==
  /\ Len(t) = 3
  /\ t[1] \in {"record", "add"}
  /\ t[2] = "revenue"
  /\ IsNumeral(t[3])
  /\ NumeralValue[t[3]] > 0

\* "(record|add) expense N for <text>" with a numeral N of value > 0
NumeralExpense(t) ==
  /\ Len(t) >= 5
  /\ t[1] \in {"record", "add"}
  /\ t[2] = "expense"
  /\ IsNumeral(t[3])
  /\ NumeralValue[t[3]] > 0
  /\ t[4] = "for"

\* the call processCommand makes for a transcript is the one of handler with
\* the value of the numeral, and the handler has switched the tab
CallsWithNumeral(t, handler, tab, tabAfter) ==
  /\ processCommand(t).call = handler
  /\ processCommand(t).amount = NumeralValue[t[3]]
  /\ tabAfter = tab

\* C21: "(record|add) revenue N" and "(record|add) expense N for <text>"
\* with a numeral N of value > 0 call onRevenueCommand, resp.
\* onExpenseCommand, once with the value of N as amount.
C21_NumeralAmounts ==
  [][ Delivers =>
        /\ NumeralRevenue(lastCommand') =>
             CallsWithNumeral(lastCommand', "onRevenueCommand", "revenue",
                              activeTab')
        /\ NumeralExpense(lastCommand') =>
             CallsWithNumeral(lastCommand', "onExpenseCommand", "expenses",
                              activeTab') ]_vars

\* the same for the expense commands whose text holds no note command
NumeralAmountsWithoutNote ==
  [][ Delivers =>
        /\ NumeralRevenue(lastCommand') =>
             CallsWithNumeral(lastCommand', "onRevenueCommand", "revenue",
                              activeTab')
        /\ (NumeralExpense(lastCommand') /\ matchNote(lastCommand') = Null) =>
             CallsWithNumeral(lastCommand', "onExpenseCommand", "expenses",
                              activeTab') ]_vars

\* a transcript of the note grammar and of no command grammar
OnlyNote(t) ==
  /\ matchNote(t) # Null
  /\ revenueMatch(t) = Null
  /\ expenseMatch(t) = Null

NothingPending == rev.pendingAmount = Null /\ exp.pendingExpense = Null

C30_TwoWordAmount ==
  [][ (Delivers /\ lastCommand' = RecordRevenueTwentyFive)
      => /\ processCommand(lastCommand').call = "onRevenueCommand"
         /\ processCommand(lastCommand').amount = 25
         /\ rev'.pendingAmount = Some(25) ]_vars

\* the time-outs of the mounted RevenueTracker that are started and not
\* fired, and those of them whose callback appends an entry when it fires
RevenueTimers ==
  {i \in DOMAIN timers : timers[i].kind = "revenueSave" /\ timers[i].live}

CommittingRevenueTimers ==
  {i \in RevenueTimers : timers[i].pending = Some(timers[i].amountValue)}

\* C29: at most one auto-commit time-out of the RevenueTracker is outstanding
\* at any time.
C29_OneTimerOutstanding == Cardinality(CommittingRevenueTimers) <= 1

\* the same, counting the time-outs whose callback finds nothing to append
OneRevenueTimerStarted == Cardinality(RevenueTimers) <= 1

\* C28: saveRevenue(e) makes getRevenue() the previous list followed by e and
\* leaves getExpenses() as it was, saveExpense(e) likewise for the expenses;
\* clearRevenue() empties the revenue list only, clearExpenses() the expense
\* list only.
C28_KindSeparated ==
  [][ (applied' # Null) =>
        LET op == applied'[1]
        IN  /\ op.fn = "saveRevenue" =>
                 /\ getRevenue(revenueStore') = Append(getRevenue(revenueStore), op.arg)
                 /\ getExpenses(expenseStore') = getExpenses(expenseStore)
            /\ op.fn = "saveExpense" =>
                 /\ getExpenses(expenseStore') = Append(getExpenses(expenseStore), op.arg)
                 /\ getRevenue(revenueStore') = getRevenue(revenueStore)
            /\ op.fn = "clearRevenue" =>
                 /\ getRevenue(revenueStore') = <<>>
                 /\ getExpenses(expenseStore') = getExpenses(expenseStore)
            /\ op.fn = "clearExpenses" =>
                 /\ getExpenses(expenseStore') = <<>>
                 /\ getRevenue(revenueStore') = getRevenue(revenueStore) ]_vars

\* clearRevenue() has left no revenue and the one expense saved before
C28_Witness ==
  /\ applied # Null
  /\ applied[1].fn = "clearRevenue"
  /\ revenueStore = <<>>
  /\ Len(expenseStore) = 1

\* C27: speak() stops the speech before it queues the new utterance: at any
\* time at most one utterance is queued or spoken, and it is the one of the
\* last call.
C27_LatestUtteranceOnly ==
  /\ Len(synthesis) <= 1
  /\ synthesis # <<>> =>
       /\ Requested # <<>>
       /\ synthesis[1] = Requested[Len(Requested)]

\* a second speak() has replaced the utterance of the first
C27_Witness ==
  /\ Requested = <<SayRevenueAmount, CouldNotUnderstand>>
  /\ synthesis = <<CouldNotUnderstand>>

\* the step is recognition.onerror
ErrorStep == Len(errors') = Len(errors) + 1

\* C26: recognition.onerror calls handlers.onError once, sets listening to
\* false and leaves lastCommand, the pending entries and the store as they
\* were; the recogniser it leaves idle can be started again by start().
C26_ErrorNonFatal ==
  [][ /\ ErrorStep =>
           /\ errors' = Append(errors, SpeechRecognitionError)
           /\ isListening' = [service |-> FALSE, dashboard |-> FALSE]
           /\ lastCommand' = lastCommand
           /\ rev' = rev
           /\ exp' = exp
           /\ timers' = timers
           /\ revenueStore' = revenueStore
           /\ expenseStore' = expenseStore
      /\ recognition' = "idle" =>
           start(recognition', isListening') = "starting" ]_vars

\* after an error while the amount 10 was pending, a new session is open and
\* the amount is still pending
C26_Witness ==
  /\ errors # <<>>
  /\ recognition = "listening"
  /\ isListening.service
  /\ delivered = <<RecordRevenue10>>
  /\ rev.pendingAmount = Some(10)
  /\ revenueStore = <<>>

\* C31: the processing lock of the ExpenseTracker is temporary: once every
\* started time-out has fired or is cleared the lock is false again, and the
\* tracker, still mounted, processes a transcript that differs from the last
\* one it processed.
C31_LaterTranscriptProcessed ==
  [][ ( /\ Delivers
        /\ activeTab = "expenses"
        /\ activeTab' = "expenses"
        /\ timers = <<>>
        /\ lastCommand' # exp.lastProcessedCommand )
      => /\ ~exp.processingLock
         /\ exp'.lastProcessedCommand = lastCommand' ]_vars

\* the last transcript has been handled to its end: its entry is appended and
\* no time-out is outstanding
LastTranscriptCommitted ==
  /\ timers = <<>>
  /\ \E i \in DOMAIN commitLog : commitLog[i].at = Len(delivered)

\* C32: a change of tab without a new transcript does not process the old
\* transcript again: the tracker that is mounted stages no pending entry.
C32_RemountStagesNothing ==
  [][ (~Delivers /\ activeTab' # activeTab /\ LastTranscriptCommitted)
      => /\ rev'.pendingAmount = Null
         /\ exp'.pendingExpense = Null
         /\ timers' = <<>> ]_vars

\* the mounted ExpenseTracker is free to process a new transcript t
ExpenseTrackerReady(t) ==
  /\ activeTab = "expenses"
  /\ ~exp.processingLock
  /\ exp.pendingExpense = Null
  /\ t # exp.lastProcessedCommand

\* the mounted RevenueTracker has nothing pending
RevenueTrackerReady ==
  /\ activeTab = "revenue"
  /\ rev.pendingAmount = Null

\* the service and the mounted ExpenseTracker agree on the step's transcript
ExpenseParsersAgree ==
  LET p == processCommand(lastCommand')
  IN  /\ p.call = "onExpenseCommand" <=> exp'.pendingExpense # Null
      /\ p.call = "onExpenseCommand" =>
           exp'.pendingExpense =
             Some([amount |-> p.amount, category |-> p.category])

\* the service and the mounted RevenueTracker agree on the step's transcript
RevenueParsersAgree ==
  LET p == processCommand(lastCommand')
  IN  /\ p.call = "onRevenueCommand" <=> rev'.pendingAmount # Null
      /\ p.call = "onRevenueCommand" => rev'.pendingAmount = Some(p.amount)

\* C33: the service calls onExpenseCommand(a, c) for a transcript exactly when
\* the mounted ExpenseTracker stages {a, c} for it, and onRevenueCommand(a)
\* exactly when the mounted RevenueTracker stages a.
C33_ParsersAgree ==
  [][ Delivers =>
        /\ ExpenseTrackerReady(lastCommand') => ExpenseParsersAgree
        /\ RevenueTrackerReady => RevenueParsersAgree ]_vars

\* the part of C33 on the RevenueTracker
RevenueParsersAgreeAlways ==
  [][ (Delivers /\ RevenueTrackerReady) => RevenueParsersAgree ]_vars

\* C34: start() does not call recognition.start() while a session is started
\* or starting: every call of recognition.start() finds the object idle.
C34_StartOnlyWhenIdle ==
  (applied # Null /\ applied[1].fn = "start" /\ applied[1].called)
    => applied[1].arg = "idle"

\* C35: without SpeechRecognition the constructor reports one error, and
\* start() and stop() do nothing afterwards: no session is begun, listening
\* is never reported and no transcript reaches a command handler.
C35_UnsupportedInert ==
  /\ errors = <<NotSupportedError>>
  /\ recognition = "none"
  /\ isListening = [service |-> FALSE, dashboard |-> FALSE]
  /\ applied # Null => ~applied[1].called
  /\ delivered = <<>>
  /\ lastCommand = <<>>

\* the voice button was clicked there, after an entry was saved by the form
C35_Witness ==
  /\ recognition = "none"
  /\ applied # Null
  /\ applied[1].fn = "start"
  /\ Len(revenueStore) = 1

\* the entries of s stamped within the day of a reading of the clock, its
\* next 00:00 left out
WithinDay(s, clock) ==
  LET OfDay(e) == /\ startOfDay(clock) <= e.timestamp
                  /\ e.timestamp < startOfDay(clock) + TicksPerDay
  IN  SelectSeq(s, OfDay)

\* C36: getTodayData() returns exactly the stored entries stamped t with
\* today 00:00 <= t < next day 00:00, in stored order, so that no entry is
\* counted in two consecutive days.
C36_TodayHalfOpen ==
  (applied # Null /\ applied[1].fn = "getTodayData")
    => /\ dashboard.revenue = WithinDay(revenueStore, applied[1].arg)
       /\ dashboard.expenses = WithinDay(expenseStore, applied[1].arg)

RECURSIVE SumOver(_, _)
SumOver(f, S) ==
  IF S = {} THEN 0
  ELSE LET c == CHOOSE x \in S : TRUE
       IN  f[c] + SumOver(f, S \ {c})

\* C37: over the same data of today, netProfit of Summary is totalRevenue
\* less totalExpenses, its totals by category add up to totalExpenses, and
\* the profit in the sentence of the status query is that netProfit.
C37_SummaryConsistent ==
  (applied # Null /\ applied[1].fn = "onStatusCommand")
    => LET summary == applied[1].summary
       IN  /\ summary.totalRevenue = SumAmounts(applied[1].props.revenue)
           /\ summary.totalExpenses = SumAmounts(applied[1].props.expenses)
           /\ summary.netProfit = summary.totalRevenue - summary.totalExpenses
           /\ SumOver(summary.expensesByCategory, ExpenseCategory)
                = summary.totalExpenses
           /\ applied[1].arg = applied[1].props
                => applied[1].out.amount = summary.netProfit

\* the query was made over a loss: expenses of two categories, one of them
\* Other, exceed the revenue
C37_Witness ==
  /\ applied # Null
  /\ applied[1].fn = "onStatusCommand"
  /\ applied[1].arg = applied[1].props
  /\ applied[1].summary.netProfit < 0
  /\ applied[1].summary.totalRevenue > 0
  /\ applied[1].summary.expensesByCategory["Other"] > 0
  /\ applied[1].summary.expensesByCategory["Gas"] > 0

\* the amount field does not parse to a number above 0
FieldRejected(field) ==
  isNaN(parseFloat(field)) \/ parseFloat(field).val <= 0

PleaseEnterValidAmount == Msg("Please enter a valid amount.", 0, "")

NoteOf(field) == IF field = <<>> THEN Undefined ELSE field

\* what a submit of the revenue form is to do
RevenueSubmitted ==
  IF FieldRejected(rev.amount)
    THEN /\ revenueStore' = revenueStore
         /\ expenseStore' = expenseStore
         /\ rev' = rev
         /\ timers' = timers
         /\ said' = <<PleaseEnterValidAmount>>
    ELSE /\ Len(revenueStore') = Len(revenueStore) + 1
         /\ SubSeq(revenueStore', 1, Len(revenueStore)) = revenueStore
         /\ revenueStore'[Len(revenueStore')].amount = parseFloat(rev.amount).val
         /\ revenueStore'[Len(revenueStore')].note = NoteOf(rev.note)
         /\ expenseStore' = expenseStore

\* what a submit of the expense form is to do
ExpenseSubmitted ==
  IF FieldRejected(exp.amount)
    THEN /\ revenueStore' = revenueStore
         /\ expenseStore' = expenseStore
         /\ exp' = exp
         /\ timers' = timers
         /\ said' = <<PleaseEnterValidAmount>>
    ELSE /\ Len(expenseStore') = Len(expenseStore) + 1
         /\ SubSeq(expenseStore', 1, Len(expenseStore)) = expenseStore
         /\ expenseStore'[Len(expenseStore')].amount = parseFloat(exp.amount).val
         /\ expenseStore'[Len(expenseStore')].category = exp.category
         /\ expenseStore'[Len(expenseStore')].note = NoteOf(exp.note)
         /\ revenueStore' = revenueStore

\* C38: a submit of a form whose amount is not a number above 0 appends
\* nothing, leaves the fields and the pending entry as they are and speaks
\* 'Please enter a valid amount.'; a submit with an amount above 0 appends
\* exactly one entry with the amount, category and note of the form.
C38_SubmitChecked ==
  [][ /\ SubmitRevenue => RevenueSubmitted
      /\ SubmitStrict => RevenueSubmitted
      /\ SubmitExpense => ExpenseSubmitted ]_vars

\* an expense went in through the form with its category and note, and the
\* submit of the emptied form that followed was turned down
C38_Witness ==
  /\ \E i \in 1..Len(commitLog) :
       /\ commitLog[i].via = "form"
       /\ commitLog[i].kind = "expense"
       /\ commitLog[i].entry.category = "Snacks"
       /\ commitLog[i].entry.note = <<"tip">>
  /\ said = <<PleaseEnterValidAmount>>
  /\ exp.amount = ""

\* the entries of s from the newest, five at most
RECURSIVE NewestFirst(_)
NewestFirst(s) ==
  IF s = <<>> THEN <<>>
  ELSE <<s[Len(s)]>> \o NewestFirst(SubSeq(s, 1, Len(s) - 1))

\* the step is a commit of the given kind made by the tracker that is
\* mounted before and after it; a time-out of an instance that was unmounted
\* is not one
CommitsMounted(kind, tab) ==
  /\ activeTab = tab
  /\ activeTab' = tab
  /\ Len(commitLog') = Len(commitLog) + 1
  /\ commitLog'[Len(commitLog')].kind = kind
  /\ commitLog'[Len(commitLog')].via = "timer" => Head(timers).live

\* C39: after every commit of a mounted tracker, by the note, the time-out
\* or the form, its list of recent entries is the five newest entries of
\* its kind in the store, the newest first.
C39_RecentIsNewestFive ==
  [][ /\ CommitsMounted("revenue", "revenue")
        => rev'.recentRevenue = Slice5(NewestFirst(revenueStore'))
      /\ CommitsMounted("expense", "expenses")
        => exp'.recentExpenses = Slice5(NewestFirst(expenseStore')) ]_vars

====
